---- MODULE Spec2Model ----
(***************************************************************************)
(* Timetable generator of scheduler_desktop (planning.py): the validator,  *)
(* the session expander, the candidate builder, the CP-SAT model (decision *)
(* variables, hard constraints, penalty objective), the solver outcome and *)
(* the decoder with its final sort.                                        *)
(*                                                                         *)
(* The CP-SAT engine is external: it is modelled by what it guarantees, a  *)
(* value for every Boolean variable that satisfies every posted constraint *)
(* (status OPTIMAL or FEASIBLE), or a status without a solution.           *)
(***************************************************************************)
EXTENDS Integers, Sequences, FiniteSets, TLC

VARIABLES
    ui,                     \* SchedulerDesktopApp: the handlers called so far
    world,                  \* AppState: the input of ScheduleGenerator
    pc,                     \* position inside generate()
    sessions,               \* list[SessionRef]
    idx,                    \* index of the session the candidate loop is at
    candidate_timeslots,    \* dict session key -> list of (day, slot)
    candidate_rooms,        \* dict session key -> list of room ids
    assignment_group_ids,   \* the local variable of generate() of that name
    y_vars,                 \* keys of the y Booleans the model holds
    x_vars,                 \* keys of the x Booleans the model holds
    constraints,            \* the linear constraints posted with model.Add
    penalties,              \* the objective: x key -> weight
    status,                 \* what solver.Solve(model) returned
    solution,               \* solver.Value: the variables that are 1
    result,                 \* list[ScheduleEntry] being built / returned
    raised                  \* the exception that left generate(), if any

vars == <<ui, world, pc, sessions, idx, candidate_timeslots, candidate_rooms,
          assignment_group_ids, y_vars, x_vars, constraints, penalties,
          status, solution, result, raised>>

----------------------------------------------------------------------------
(* models.py *)

NumDays == 6
SLOTS == 1..8
DayIndexes == 0..(NumDays - 1)

\* Python's None for an optional id, and for an optional int (lock_day, lock_slot).
None == "None"
NoneInt == -1

Digit == <<"0", "1", "2", "3", "4", "5", "6", "7", "8", "9">>

\* f"{day}:{slot}" for the one-digit days and slots generate() iterates over.
slot_key(day, slot) == Digit[day + 1] \o ":" \o Digit[slot + 1]

\* All (day, slot) pairs in the order of the nested loops
\* "for day in range(len(DAYS)): for slot in SLOTS".
AllCells == [i \in 1..(NumDays * 8) |-> <<(i - 1) \div 8, ((i - 1) % 8) + 1>>]

----------------------------------------------------------------------------
(* Python built-ins the generator relies on *)

\* The ids used by the bounded worlds, in Python's string order.
IdOrder == <<"a1", "a2", "a3", "d1", "d9", "g1", "g2", "g9",
             "r1", "r2", "r9", "s1", "s9", "t1", "t2", "t9">>

Rank(id) == CHOOSE i \in 1..Len(IdOrder) : IdOrder[i] = id

StrLess(a, b) == Rank(a) < Rank(b)

Range(seq) == {seq[i] : i \in DOMAIN seq}

RECURSIVE SortedSeq(_)
\* sorted(S) for a set S of ids.
SortedSeq(S) ==
    IF S = {} THEN <<>>
    ELSE LET m == CHOOSE x \in S : \A y \in S : ~StrLess(y, x)
         IN  <<m>> \o SortedSeq(S \ {m})

RECURSIVE SumOver(_, _)
\* sum(f[x] for x in seq)
SumOver(f, seq) ==
    IF seq = <<>> THEN 0 ELSE f[Head(seq)] + SumOver(f, Tail(seq))

\* The first index at which a list of Booleans is TRUE, 0 when there is none:
\* where a loop that stops at its first match stops.
FirstIndex(flags) ==
    IF \E i \in DOMAIN flags : flags[i]
    THEN CHOOSE i \in DOMAIN flags : flags[i] /\ \A j \in 1..(i - 1) : ~flags[j]
    ELSE 0

----------------------------------------------------------------------------
(* Exceptions *)

NoError == [kind |-> "none", tag |-> "", who |-> ""]
PlanningError(tag, who) == [kind |-> "PlanningError", tag |-> tag, who |-> who]
KeyError(who) == [kind |-> "KeyError", tag |-> "rooms", who |-> who]

----------------------------------------------------------------------------
(* planning.py: helpers of ScheduleGenerator *)

\* self.assignments = {a.id: a for a in state.assignments}: the last assignment
\* of the list that carries the id.
AssignmentById(w, id) ==
    LET i == CHOOSE i \in DOMAIN w.assignments :
                 /\ w.assignments[i].id = id
                 /\ \A j \in DOMAIN w.assignments :
                        w.assignments[j].id = id => j <= i
    IN  w.assignments[i]

\* The list "resolved" of _assignment_group_ids: the stream's groups, then the
\* assignment's own.
ResolvedGroupIds(w, a) ==
    (IF a.stream_id # None /\ a.stream_id \in DOMAIN w.streams
        THEN w.streams[a.stream_id].group_ids
        ELSE <<>>) \o a.group_ids

\* _assignment_group_ids: sorted(set(resolved)); the caller sees PlanningError
\* instead when this list is empty (GroupIdsMissing).
AssignmentGroupIds(w, a) == SortedSeq(Range(ResolvedGroupIds(w, a)))

GroupIdsMissing(w, a) == AssignmentGroupIds(w, a) = <<>>

\* StreamsAfterResolve with "resolved" bound to the stream's own list, which
\* resolved.extend(assignment.group_ids) then lengthens.
StreamsAfterResolveAliased(w, a) ==
    IF a.stream_id # None /\ a.stream_id \in DOMAIN w.streams
    THEN [w.streams EXCEPT ![a.stream_id].group_ids = @ \o a.group_ids]
    ELSE w.streams

\* The streams of the world after a call of _assignment_group_ids(a):
\* "resolved" is a new list, so the two calls of resolved.extend leave the
\* lists of the stream and of the assignment as they were.
StreamsAfterResolve(w, a) == w.streams

RECURSIVE StreamsAfterResolveAll(_, _)
\* The streams after _assignment_group_ids has been called for the assignment
\* of every session of a list, as the constraint loop and the penalty loop do.
StreamsAfterResolveAll(w, ss) ==
    IF ss = <<>> THEN w.streams
    ELSE StreamsAfterResolveAll(
             [w EXCEPT !.streams = StreamsAfterResolve(w, AssignmentById(w, Head(ss)[1]))],
             Tail(ss))

\* weeks_overlap(a, b), on anything with start_week and end_week.
weeks_overlap(a, b) == ~(a.end_week < b.start_week \/ b.end_week < a.start_week)

\* ActiveWeeks with the range started at week 1, whatever start_week is.
ActiveWeeksFromOne(a) == 1..a.end_week

\* range(assignment.start_week, assignment.end_week + 1)
ActiveWeeks(a) == a.start_week..a.end_week

ContractWindowViolated(a, teacher) ==
    \/ a.start_week < teacher.contract_start_week
    \/ a.end_week > teacher.contract_end_week

GroupWindowViolated(a, group) ==
    \/ a.start_week < group.program_start_week
    \/ a.end_week > group.program_end_week

GroupSizes(w) == [g \in DOMAIN w.groups |-> w.groups[g].size]

\* RoomFitsAssignment with the head count taken over assignment.group_ids, the
\* groups of the stream left out.
RoomFitsAssignmentOwnGroups(w, room, a, discipline) ==
    LET total_students == SumOver(GroupSizes(w), a.group_ids)
    IN  /\ ~(room.capacity < total_students)
        /\ \A feature \in discipline.required_room_features :
               feature \in room.features

\* _room_fits_assignment
RoomFitsAssignment(w, room, a, discipline) ==
    LET total_students == SumOver(GroupSizes(w), AssignmentGroupIds(w, a))
    IN  /\ ~(room.capacity < total_students)
        /\ \A feature \in discipline.required_room_features :
               feature \in room.features

Locked(a) == a.lock_day # NoneInt /\ a.lock_slot # NoneInt

\* CellAllowed with the lock test written with "and" in place of "or".
CellAllowedLockAnd(w, a, teacher, day, slot) ==
    /\ ~(Locked(a) /\ (day # a.lock_day /\ slot # a.lock_slot))
    /\ day \in teacher.work_days
    /\ slot_key(day, slot) \notin teacher.blocked_slots
    /\ \A i \in DOMAIN AssignmentGroupIds(w, a) :
           LET group == w.groups[AssignmentGroupIds(w, a)[i]]
           IN  /\ day \notin group.blocked_days
               /\ ~(slot < group.shift_start_slot \/ slot > group.shift_end_slot)
               /\ slot_key(day, slot) \notin group.blocked_slots

\* CellAllowed with the group loop over assignment.group_ids, the groups of the
\* stream left out.
CellAllowedOwnGroups(w, a, teacher, day, slot) ==
    /\ ~(Locked(a) /\ (day # a.lock_day \/ slot # a.lock_slot))
    /\ day \in teacher.work_days
    /\ slot_key(day, slot) \notin teacher.blocked_slots
    /\ \A i \in DOMAIN a.group_ids :
           LET group == w.groups[a.group_ids[i]]
           IN  /\ day \notin group.blocked_days
               /\ ~(slot < group.shift_start_slot \/ slot > group.shift_end_slot)
               /\ slot_key(day, slot) \notin group.blocked_slots

\* CellAllowed with the test of the groups' shift left out.
CellAllowedNoShift(w, a, teacher, day, slot) ==
    /\ ~(Locked(a) /\ (day # a.lock_day \/ slot # a.lock_slot))
    /\ day \in teacher.work_days
    /\ slot_key(day, slot) \notin teacher.blocked_slots
    /\ \A i \in DOMAIN AssignmentGroupIds(w, a) :
           LET group == w.groups[AssignmentGroupIds(w, a)[i]]
           IN  /\ day \notin group.blocked_days
               /\ slot_key(day, slot) \notin group.blocked_slots

\* CellAllowed with the locked cell taken whatever the teacher and the groups
\* allow.
CellAllowedLockFirst(w, a, teacher, day, slot) ==
    IF Locked(a) THEN day = a.lock_day /\ slot = a.lock_slot
    ELSE /\ day \in teacher.work_days
         /\ slot_key(day, slot) \notin teacher.blocked_slots
         /\ \A i \in DOMAIN AssignmentGroupIds(w, a) :
                LET group == w.groups[AssignmentGroupIds(w, a)[i]]
                IN  /\ day \notin group.blocked_days
                    /\ ~(slot < group.shift_start_slot \/ slot > group.shift_end_slot)
                    /\ slot_key(day, slot) \notin group.blocked_slots

\* CellAllowed with the lock on day and slot not looked at.
CellAllowedLockIgnored(w, a, teacher, day, slot) ==
    /\ day \in teacher.work_days
    /\ slot_key(day, slot) \notin teacher.blocked_slots
    /\ \A i \in DOMAIN AssignmentGroupIds(w, a) :
           LET group == w.groups[AssignmentGroupIds(w, a)[i]]
           IN  /\ day \notin group.blocked_days
               /\ ~(slot < group.shift_start_slot \/ slot > group.shift_end_slot)
               /\ slot_key(day, slot) \notin group.blocked_slots

\* The test one (day, slot) passes in _build_timeslot_candidates.
CellAllowed(w, a, teacher, day, slot) ==
    /\ ~(Locked(a) /\ (day # a.lock_day \/ slot # a.lock_slot))
    /\ day \in teacher.work_days
    /\ slot_key(day, slot) \notin teacher.blocked_slots
    /\ \A i \in DOMAIN AssignmentGroupIds(w, a) :
           LET group == w.groups[AssignmentGroupIds(w, a)[i]]
           IN  /\ day \notin group.blocked_days
               /\ ~(slot < group.shift_start_slot \/ slot > group.shift_end_slot)
               /\ slot_key(day, slot) \notin group.blocked_slots

\* _build_timeslot_candidates: the list of (day, slot), days outermost.
BuildTimeslotCandidates(w, a, teacher) ==
    SelectSeq(AllCells, LAMBDA c : CellAllowed(w, a, teacher, c[1], c[2]))

\* requested_room of _build_room_candidates: the first truthy of the four.
RequestedRoom(w, a, discipline) ==
    LET stream_preferred_room_id ==
            IF a.stream_id # None /\ a.stream_id \in DOMAIN w.streams
            THEN w.streams[a.stream_id].preferred_room_id
            ELSE None
    IN  IF a.lock_room_id # None THEN a.lock_room_id
        ELSE IF a.room_id # None THEN a.room_id
        ELSE IF discipline.fixed_room_id # None THEN discipline.fixed_room_id
        ELSE stream_preferred_room_id

\* self.rooms[requested_room] raises KeyError for a room that does not exist.
RoomLookupFails(w, a, discipline) ==
    /\ RequestedRoom(w, a, discipline) # None
    /\ RequestedRoom(w, a, discipline) \notin DOMAIN w.rooms

\* _build_room_candidates, when the lookup does not fail.
BuildRoomCandidates(w, a, discipline) ==
    LET requested_room == RequestedRoom(w, a, discipline)
    IN  IF requested_room # None
        THEN IF RoomFitsAssignment(w, w.rooms[requested_room], a, discipline)
             THEN <<requested_room>>
             ELSE <<>>
        ELSE SelectSeq(SortedSeq(DOMAIN w.rooms),
                       LAMBDA r : RoomFitsAssignment(w, w.rooms[r], a, discipline))

----------------------------------------------------------------------------
(* planning.py: validate_state *)

StreamError(w, sid) ==
    LET stream == w.streams[sid]
    IN  IF \E i \in DOMAIN stream.group_ids : stream.group_ids[i] \notin DOMAIN w.groups
        THEN PlanningError("unknown_group", sid)
        ELSE IF stream.preferred_room_id # None
                /\ stream.preferred_room_id \notin DOMAIN w.rooms
        THEN PlanningError("unknown_room", sid)
        ELSE NoError

AssignmentError(w, a) ==
    IF a.teacher_id \notin DOMAIN w.teachers
    THEN PlanningError("unknown_teacher", a.id)
    ELSE IF a.discipline_id \notin DOMAIN w.disciplines
    THEN PlanningError("unknown_discipline", a.id)
    ELSE IF a.stream_id # None /\ a.stream_id \notin DOMAIN w.streams
    THEN PlanningError("unknown_stream", a.id)
    ELSE IF \E i \in DOMAIN a.group_ids : a.group_ids[i] \notin DOMAIN w.groups
    THEN PlanningError("unknown_group", a.id)
    ELSE IF a.room_id # None /\ a.room_id \notin DOMAIN w.rooms
    THEN PlanningError("unknown_room", a.id)
    ELSE IF a.lock_room_id # None /\ a.lock_room_id \notin DOMAIN w.rooms
    THEN PlanningError("unknown_lock_room", a.id)
    ELSE IF a.sessions_per_week <= 0
    THEN PlanningError("sessions_per_week", a.id)
    ELSE IF a.start_week > a.end_week
    THEN PlanningError("start_after_end", a.id)
    ELSE NoError

\* validate_state: the first error in the order of its two loops.
validate_state(w) ==
    LET streams == SortedSeq(DOMAIN w.streams)
        i == FirstIndex([k \in DOMAIN streams |-> StreamError(w, streams[k]) # NoError])
        j == FirstIndex([k \in DOMAIN w.assignments |->
                            AssignmentError(w, w.assignments[k]) # NoError])
    IN  IF i # 0 THEN StreamError(w, streams[i])
        ELSE IF j # 0 THEN AssignmentError(w, w.assignments[j])
        ELSE NoError

----------------------------------------------------------------------------
(* planning.py: generate(), the sessions and the candidate loop *)

\* SessionRef(assignment_id, session_index); its key f"{id}:{index}" is kept
\* as the pair, which determines the string and is determined by it.
SessionRef(assignment_id, session_index) == <<assignment_id, session_index>>

\* ExpandSessions with the inner loop over range(sessions_per_week) left out.
ExpandSessionsOnce(assignments) ==
    [i \in DOMAIN assignments |-> SessionRef(assignments[i].id, 0)]

RECURSIVE ExpandSessions(_)
\* for assignment in assignments: for idx in range(sessions_per_week): append
ExpandSessions(assignments) ==
    IF assignments = <<>> THEN <<>>
    ELSE LET a == Head(assignments)
         IN  [i \in 1..(IF a.sessions_per_week > 0 THEN a.sessions_per_week ELSE 0)
                  |-> SessionRef(a.id, i - 1)]
             \o ExpandSessions(Tail(assignments))

\* What the body of the candidate loop raises for a session of assignment a,
\* NoError when it reaches the two dictionary stores.
CandidateError(w, a) ==
    LET discipline == w.disciplines[a.discipline_id]
        teacher == w.teachers[a.teacher_id]
        gids == AssignmentGroupIds(w, a)
    IN  IF GroupIdsMissing(w, a)
        THEN PlanningError("no_groups", a.id)
        ELSE IF ContractWindowViolated(a, teacher)
        THEN PlanningError("contract_window", a.id)
        ELSE IF \E i \in DOMAIN gids : GroupWindowViolated(a, w.groups[gids[i]])
        THEN PlanningError("program_window", a.id)
        ELSE IF BuildTimeslotCandidates(w, a, teacher) = <<>>
        THEN PlanningError("no_slots", a.id)
        ELSE IF RoomLookupFails(w, a, discipline)
        THEN KeyError(RequestedRoom(w, a, discipline))
        ELSE IF BuildRoomCandidates(w, a, discipline) = <<>>
        THEN PlanningError("no_rooms", a.id)
        ELSE NoError

----------------------------------------------------------------------------
(* planning.py: generate(), the CP-SAT model *)

SessionKeys == Range(sessions)

SessionAssignment(skey) == AssignmentById(world, skey[1])

\* The keys of y_vars after the variable loop: one y per session and
\* candidate (day, slot).
BuildYVars ==
    UNION {{<<skey, c[1], c[2]>> : c \in Range(candidate_timeslots[skey])} :
           skey \in SessionKeys}

\* The keys of x_vars: one x per session, candidate (day, slot) and candidate room.
BuildXVars ==
    UNION {{<<skey, c[1], c[2], r>> :
                c \in Range(candidate_timeslots[skey]),
                r \in Range(candidate_rooms[skey])} :
           skey \in SessionKeys}

\* solver.Value(v) for a Boolean v, given the set of variables that are 1.
Value(v, ones) == IF v \in ones THEN 1 ELSE 0

\* sum(vars_) under the solver's values.
SumVars(vars_, ones) == Cardinality(vars_ \cap ones)

\* A linear constraint model.Add(sum(vars_) rel rhs): rhs is a number,
\* <<"const", n>>, or a Boolean variable, <<"var", key>>.
Linear(vars_, rel, rhs) == [vars |-> vars_, rel |-> rel, rhs |-> rhs]

Satisfied(c, ones) ==
    LET lhs == SumVars(c.vars, ones)
        rhs == IF c.rhs[1] = "var" THEN Value(c.rhs[2], ones) ELSE c.rhs[2]
    IN  IF c.rel = "=" THEN lhs = rhs ELSE lhs <= rhs

\* ChannelingConstraints with the model.Add calls left out.
ChannelingConstraintsDropped == {}

\* model.Add(sum(room_vars) == y), for every y.
ChannelingConstraints ==
    {Linear({xk \in BuildXVars : xk[1] = yk[1] /\ xk[2] = yk[2] /\ xk[3] = yk[3]},
            "=", <<"var", yk>>) : yk \in BuildYVars}

\* model.Add(sum(slot_choice_vars) == 1), for every session.
ExactlyOneConstraints ==
    {Linear({yk \in BuildYVars : yk[1] = skey}, "=", <<"const", 1>>) :
        skey \in SessionKeys}

\* by_week_slot_teacher with a y filed under its assignment's first week only.
by_week_slot_teacher_first_week(week, day, slot, teacher_id) ==
    {yk \in BuildYVars :
        /\ SessionAssignment(yk[1]).teacher_id = teacher_id
        /\ week = SessionAssignment(yk[1]).start_week
        /\ yk[2] = day /\ yk[3] = slot}

\* by_week_slot_group over assignment.group_ids, the stream's groups left out.
by_week_slot_group_own(week, day, slot, group_id) ==
    {yk \in BuildYVars :
        /\ group_id \in Range(SessionAssignment(yk[1]).group_ids)
        /\ week \in ActiveWeeks(SessionAssignment(yk[1]))
        /\ yk[2] = day /\ yk[3] = slot}

\* The five defaultdict(list) of generate(): the variables filed under a key.
by_week_slot_teacher(week, day, slot, teacher_id) ==
    {yk \in BuildYVars :
        /\ SessionAssignment(yk[1]).teacher_id = teacher_id
        /\ week \in ActiveWeeks(SessionAssignment(yk[1]))
        /\ yk[2] = day /\ yk[3] = slot}

by_week_slot_group(week, day, slot, group_id) ==
    {yk \in BuildYVars :
        /\ group_id \in Range(AssignmentGroupIds(world, SessionAssignment(yk[1])))
        /\ week \in ActiveWeeks(SessionAssignment(yk[1]))
        /\ yk[2] = day /\ yk[3] = slot}

by_week_slot_room(week, day, slot, room_id) ==
    {xk \in BuildXVars :
        /\ week \in ActiveWeeks(SessionAssignment(xk[1]))
        /\ xk[2] = day /\ xk[3] = slot /\ xk[4] = room_id}

by_week_and_day_teacher(week, day, teacher_id) ==
    {yk \in BuildYVars :
        /\ SessionAssignment(yk[1]).teacher_id = teacher_id
        /\ week \in ActiveWeeks(SessionAssignment(yk[1]))
        /\ yk[2] = day}

by_week_teacher(week, teacher_id) ==
    {yk \in BuildYVars :
        /\ SessionAssignment(yk[1]).teacher_id = teacher_id
        /\ week \in ActiveWeeks(SessionAssignment(yk[1]))}

\* The weeks, teachers, groups, rooms and cells that occur in a key of the
\* dictionaries; a key with nothing filed under it is not in its dictionary.
ModelWeeks == UNION {ActiveWeeks(SessionAssignment(skey)) : skey \in SessionKeys}
ModelTeachers == {SessionAssignment(skey).teacher_id : skey \in SessionKeys}
ModelGroups ==
    UNION {Range(AssignmentGroupIds(world, SessionAssignment(skey))) :
           skey \in SessionKeys}
ModelRooms == {xk[4] : xk \in BuildXVars}
ModelCells == {<<yk[2], yk[3]>> : yk \in BuildYVars}
ModelDays == {yk[2] : yk \in BuildYVars}

\* AtMost with the model.Add calls over the dictionaries' values left out.
AtMostNone(buckets, bound) == {}

AtMost(buckets, bound) ==
    {Linear(b, "<=", <<"const", bound>>) : b \in buckets \ {{}}}

\* for vars_ in by_week_slot_teacher.values(): model.Add(sum(vars_) <= 1)
TeacherSingleBooking ==
    AtMost({by_week_slot_teacher(week, c[1], c[2], t) :
                week \in ModelWeeks, c \in ModelCells, t \in ModelTeachers}, 1)

\* for vars_ in by_week_slot_group.values(): model.Add(sum(vars_) <= 1)
GroupSingleBooking ==
    AtMost({by_week_slot_group(week, c[1], c[2], g) :
                week \in ModelWeeks, c \in ModelCells, g \in ModelGroups}, 1)

\* RoomSingleBooking with the loop over by_week_slot_room.values() left out.
RoomSingleBookingDropped == {}

\* TeacherDailyCap bounded by max_classes_per_week.
TeacherDailyCapWeekly ==
    UNION {AtMost({by_week_and_day_teacher(week, day, t) :
                       week \in ModelWeeks, day \in ModelDays},
                  world.teachers[t].max_classes_per_week) : t \in ModelTeachers}

\* for vars_ in by_week_slot_room.values(): model.Add(sum(vars_) <= 1)
RoomSingleBooking ==
    AtMost({by_week_slot_room(week, c[1], c[2], r) :
                week \in ModelWeeks, c \in ModelCells, r \in ModelRooms}, 1)

\* model.Add(sum(vars_) <= teacher.max_classes_per_day)
TeacherDailyCap ==
    UNION {AtMost({by_week_and_day_teacher(week, day, t) :
                       week \in ModelWeeks, day \in ModelDays},
                  world.teachers[t].max_classes_per_day) : t \in ModelTeachers}

\* model.Add(sum(vars_) <= teacher.max_classes_per_week)
TeacherWeeklyCap ==
    UNION {AtMost({by_week_teacher(week, t) : week \in ModelWeeks},
                  world.teachers[t].max_classes_per_week) : t \in ModelTeachers}

\* Every constraint generate() posts with model.Add, by the loop that posts it.
BuildConstraints ==
    [exactly_one |-> ExactlyOneConstraints,
     channeling |-> ChannelingConstraints,
     teacher_slot |-> TeacherSingleBooking,
     group_slot |-> GroupSingleBooking,
     room_slot |-> RoomSingleBooking,
     teacher_day |-> TeacherDailyCap,
     teacher_week |-> TeacherWeeklyCap]

NoConstraints ==
    [exactly_one |-> {}, channeling |-> {}, teacher_slot |-> {},
     group_slot |-> {}, room_slot |-> {}, teacher_day |-> {}, teacher_week |-> {}]

\* The values of the Booleans (the set of those that are 1) satisfy the model.
HardConstraints(ones) ==
    /\ \A c \in constraints.exactly_one : Satisfied(c, ones)
    /\ \A c \in constraints.channeling : Satisfied(c, ones)
    /\ \A c \in constraints.teacher_slot : Satisfied(c, ones)
    /\ \A c \in constraints.group_slot : Satisfied(c, ones)
    /\ \A c \in constraints.room_slot : Satisfied(c, ones)
    /\ \A c \in constraints.teacher_day : Satisfied(c, ones)
    /\ \A c \in constraints.teacher_week : Satisfied(c, ones)

----------------------------------------------------------------------------
(* planning.py: generate(), the objective *)

PenaltyDefaultRoom == 2
PenaltyAssignmentRoom == 5
PenaltyFixedRoom == 7
PenaltyLateSlot == 1
LateSlot == 6
\* The shift weight set to the weight of a late slot.
PenaltyShiftAsLate == PenaltyLateSlot
PenaltyShift == 4

\* group_shift_penalty of one x variable: 4 for each group whose shift ends
\* before the slot and 4 for each group whose shift starts after it.
group_shift_penalty(xk) ==
    LET gids == AssignmentGroupIds(world, SessionAssignment(xk[1]))
        slot == xk[3]
    IN  SumOver([i \in DOMAIN gids |->
                    (IF slot > world.groups[gids[i]].shift_end_slot
                        THEN PenaltyShift ELSE 0)
                  + (IF slot < world.groups[gids[i]].shift_start_slot
                        THEN PenaltyShift ELSE 0)],
                [i \in DOMAIN gids |-> i])

\* The penalty of one x variable.
Penalty(xk) ==
    LET assignment == SessionAssignment(xk[1])
        discipline == world.disciplines[assignment.discipline_id]
        teacher == world.teachers[assignment.teacher_id]
        slot == xk[3]
        room_id == xk[4]
    IN  (IF teacher.default_room_id # None /\ room_id # teacher.default_room_id
            THEN PenaltyDefaultRoom ELSE 0)
      + (IF assignment.room_id # None /\ room_id # assignment.room_id
            THEN PenaltyAssignmentRoom ELSE 0)
      + (IF discipline.fixed_room_id # None /\ room_id # discipline.fixed_room_id
            THEN PenaltyFixedRoom ELSE 0)
      + (IF slot >= LateSlot THEN PenaltyLateSlot ELSE 0)
      + group_shift_penalty(xk)

\* The list "penalties": the weight of every x variable whose penalty is not 0.
BuildPenalties ==
    [xk \in {xk \in BuildXVars : Penalty(xk) # 0} |-> Penalty(xk)]

RECURSIVE SumPenalties(_)
SumPenalties(xs) ==
    IF xs = {} THEN 0
    ELSE LET xk == CHOOSE xk \in xs : TRUE
         IN  penalties[xk] + SumPenalties(xs \ {xk})

\* sum(penalties) under the solver's values: the argument of model.Minimize.
Objective(ones) == SumPenalties(ones \cap DOMAIN penalties)

----------------------------------------------------------------------------
(* The CP-SAT engine *)

NoCell == <<>>

\* What the engine may give one session: no cell, a cell without a room, or a
\* cell and a room, each among the variables the model holds for the session.
SessionValues(skey) ==
    {[cell |-> NoCell, room |-> None]}
    \cup {[cell |-> c, room |-> None] : c \in Range(candidate_timeslots[skey])}
    \cup {[cell |-> c, room |-> r] :
            c \in Range(candidate_timeslots[skey]),
            r \in Range(candidate_rooms[skey])}

\* The variables that are 1 under a choice of values.
Ones(f) ==
    {<<k, f[k].cell[1], f[k].cell[2]>> : k \in {k \in DOMAIN f : f[k].cell # NoCell}}
    \cup {<<k, f[k].cell[1], f[k].cell[2], f[k].room>> :
             k \in {k \in DOMAIN f : f[k].cell # NoCell /\ f[k].room # None}}

\* The variable a constraint has on its right-hand side, if any.
RhsVars(c) == IF c.rhs[1] = "var" THEN {c.rhs[2]} ELSE {}

\* The equalities that mention the variables of one session only: a session's
\* values decide them, whatever the other sessions get.
LocalConstraints(skey) ==
    {c \in constraints.exactly_one \cup constraints.channeling :
        \A v \in c.vars \cup RhsVars(c) : v[1] = skey}

\* The values of a session that satisfy its local constraints.
LocalValues(skey) ==
    {v \in SessionValues(skey) :
        \A c \in LocalConstraints(skey) : Satisfied(c, Ones(skey :> v))}

RECURSIVE ValueFunctions(_)
ValueFunctions(keys) ==
    IF keys = {} THEN {<<>>}
    ELSE LET k == CHOOSE k \in keys : TRUE
         IN  {(k :> v) @@ f : v \in LocalValues(k), f \in ValueFunctions(keys \ {k})}

\* Every value of the Booleans the engine has to look at: a value outside
\* violates a local constraint.
AllValues == {Ones(f) : f \in ValueFunctions(SessionKeys)}

\* The values of the Booleans that satisfy every posted constraint.
FeasibleSolutions == {ones \in AllValues : HardConstraints(ones)}

Infeasible == \A ones \in AllValues : ~HardConstraints(ones)

NoSolution == {}

----------------------------------------------------------------------------
(* planning.py: generate(), the decoder and the final sort *)

\* The (day, slot, room) the decoding loop finds for a session: the first
\* candidate cell whose y is 1 and the first candidate room whose x is 1 there;
\* NoneInt and None for what it does not find.
Chosen(skey, sol) ==
    LET cells == candidate_timeslots[skey]
        rooms == candidate_rooms[skey]
        i == FirstIndex([k \in DOMAIN cells |->
                            Value(<<skey, cells[k][1], cells[k][2]>>, sol) = 1])
        j == IF i = 0 THEN 0
             ELSE FirstIndex([k \in DOMAIN rooms |->
                     Value(<<skey, cells[i][1], cells[i][2], rooms[k]>>, sol) = 1])
    IN  [day |-> IF i = 0 THEN NoneInt ELSE cells[i][1],
         slot |-> IF i = 0 THEN NoneInt ELSE cells[i][2],
         room |-> IF j = 0 THEN None ELSE rooms[j]]

NothingChosen(skey, sol) ==
    \/ Chosen(skey, sol).day = NoneInt
    \/ Chosen(skey, sol).slot = NoneInt
    \/ Chosen(skey, sol).room = None

\* The ScheduleEntry the decoding loop appends for a session; group_ids is
\* whatever the local variable assignment_group_ids holds at that point.
ScheduleEntry(skey, sol, group_ids) ==
    LET assignment == SessionAssignment(skey)
    IN  [assignment_id |-> assignment.id,
         discipline_id |-> assignment.discipline_id,
         teacher_id |-> assignment.teacher_id,
         group_ids |-> group_ids,
         day |-> Chosen(skey, sol).day,
         slot |-> Chosen(skey, sol).slot,
         room_id |-> Chosen(skey, sol).room,
         start_week |-> assignment.start_week,
         end_week |-> assignment.end_week]

\* StoredSchedule with the result assigned to state.schedule.
StoredScheduleAssigned(w, entries) == entries

\* state.schedule after generate has built, sorted and returned its list: the
\* list is a local one and generate assigns nothing to self.state.
StoredSchedule(w, entries) == w.schedule

\* SortKeyLess with the key (s.day, s.slot), the assignment_id left out.
SortKeyLessCellOnly(e1, e2) ==
    \/ e1.day < e2.day
    \/ e1.day = e2.day /\ e1.slot < e2.slot

\* The sort key (s.day, s.slot, s.assignment_id), compared as Python compares tuples.
SortKeyLess(e1, e2) ==
    \/ e1.day < e2.day
    \/ e1.day = e2.day /\ e1.slot < e2.slot
    \/ e1.day = e2.day /\ e1.slot = e2.slot
         /\ StrLess(e1.assignment_id, e2.assignment_id)

RECURSIVE InsertSorted(_, _)
\* e placed behind every element whose key is not greater (list.sort is stable).
InsertSorted(e, seq) ==
    IF seq = <<>> THEN <<e>>
    ELSE IF SortKeyLess(e, Head(seq)) THEN <<e>> \o seq
    ELSE <<Head(seq)>> \o InsertSorted(e, Tail(seq))

\* SortEntries with the call of result.sort left out.
SortEntriesDropped(seq) == seq

RECURSIVE SortEntries(_)
\* result.sort(key=lambda s: (s.day, s.slot, s.assignment_id))
SortEntries(seq) ==
    IF seq = <<>> THEN <<>>
    ELSE InsertSorted(seq[Len(seq)], SortEntries(SubSeq(seq, 1, Len(seq) - 1)))

----------------------------------------------------------------------------
(* The bounded input worlds *)

MaxWeek == 2
MaxSessions == 2

Weeks == 1..MaxWeek
WeekRanges == {r \in Weeks \X Weeks : r[1] <= r[2]}

Teacher(default_room_id, work_days, blocked_slots, per_day, per_week, contract) ==
    [default_room_id |-> default_room_id, work_days |-> work_days,
     blocked_slots |-> blocked_slots,
     max_classes_per_day |-> per_day,
     max_classes_per_week |-> per_week,
     contract_start_week |-> contract[1], contract_end_week |-> contract[2]]

Room(capacity, features) == [capacity |-> capacity, features |-> features]

StudentGroup(size, shift, blocked_days, blocked_slots, program) ==
    [size |-> size, shift_start_slot |-> shift[1], shift_end_slot |-> shift[2],
     blocked_days |-> blocked_days, blocked_slots |-> blocked_slots,
     program_start_week |-> program[1], program_end_week |-> program[2]]

Stream(group_ids, preferred_room_id) ==
    [group_ids |-> group_ids, preferred_room_id |-> preferred_room_id]

Discipline(required_room_features, fixed_room_id) ==
    [required_room_features |-> required_room_features,
     fixed_room_id |-> fixed_room_id]

Assignment(id, teacher_id, group_ids, stream_id, weeks, sessions_per_week) ==
    [id |-> id, discipline_id |-> "d1", teacher_id |-> teacher_id,
     group_ids |-> group_ids, stream_id |-> stream_id,
     start_week |-> weeks[1], end_week |-> weeks[2],
     sessions_per_week |-> sessions_per_week,
     room_id |-> None, lock_day |-> NoneInt, lock_slot |-> NoneInt,
     lock_room_id |-> None, lock_teacher_id |-> None]

AppState(teachers, rooms, groups, streams, disciplines, assignments) ==
    [teachers |-> teachers, rooms |-> rooms, groups |-> groups,
     streams |-> streams, disciplines |-> disciplines,
     assignments |-> assignments, schedule |-> <<>>]

\* Two working days, one blocked cell and a two-slot shift: the cells (0, 1),
\* (0, 2) and (1, 1) for every session.
BaseTeacher == Teacher(None, {0, 1}, {"1:2"}, 4, 20, <<1, MaxWeek>>)
BaseGroup(size) == StudentGroup(size, <<1, 2>>, {}, {}, <<1, MaxWeek>>)
BaseTeachers == ("t1" :> BaseTeacher) @@ ("t2" :> BaseTeacher)
BaseRooms == ("r1" :> Room(30, {"lecture"})) @@ ("r2" :> Room(30, {"lecture", "lab"}))
BaseGroups == ("g1" :> BaseGroup(20)) @@ ("g2" :> BaseGroup(10))
BaseStreams == ("s1" :> Stream(<<"g2", "g1", "g2">>, None))
BaseDisciplines == ("d1" :> Discipline({}, None))

\* Who teaches whom and when: two assignments that share, or do not share, the
\* teacher, a group and a week, under a daily cap of one or a weekly cap of two
\* for teacher t1, or under caps that do not bind.
BookingWorlds ==
    {AppState(
        ("t1" :> [BaseTeacher EXCEPT !.max_classes_per_day = cap[1],
                                     !.max_classes_per_week = cap[2]]) @@ BaseTeachers,
        BaseRooms, BaseGroups, BaseStreams, BaseDisciplines,
        <<Assignment("a1", "t1", g1, s1, <<1, e1>>, n1),
          Assignment("a2", t2, g2, None, w2, 1)>>) :
     cap \in {<<1, 20>>, <<4, 20>>, <<4, 2>>}, g1 \in {<<"g1">>, <<>>}, s1 \in {None, "s1"},
     e1 \in Weeks, n1 \in 1..MaxSessions,
     t2 \in {"t1", "t2"}, g2 \in {<<"g1">>, <<"g2">>}, w2 \in WeekRanges}

\* Locks and room wishes of a1, beside an assignment a2 of another teacher and
\* another group that is locked to the cell (0, 1) and to room r1.
LockWorlds ==
    {AppState(
        BaseTeachers, BaseRooms, BaseGroups, BaseStreams, BaseDisciplines,
        <<[Assignment("a1", "t1", <<"g1">>, None, <<1, 1>>, n1) EXCEPT
              !.lock_day = ld, !.lock_slot = ls, !.lock_room_id = lr, !.room_id = rm],
          [Assignment("a2", "t2", <<"g2">>, None, <<1, MaxWeek>>, 1) EXCEPT
              !.lock_day = 0, !.lock_slot = 1, !.lock_room_id = "r1"]>>) :
     ld \in {NoneInt, 0, 1}, ls \in {NoneInt, 1, 2}, lr \in {None, "r1", "r2"},
     rm \in {None, "r1"}, n1 \in 1..MaxSessions}

\* Where the room of a single assignment comes from, and whether it fits.
RoomWorlds ==
    {AppState(
        ("t1" :> [BaseTeacher EXCEPT !.default_room_id = dr]) @@ BaseTeachers,
        ("r1" :> Room(30, {"lecture"})) @@ ("r2" :> Room(cap2, {"lecture", "lab"})),
        BaseGroups,
        ("s1" :> Stream(<<"g2", "g1", "g2">>, pr)),
        ("d1" :> Discipline(req, fx)),
        <<[Assignment("a1", "t1", <<"g1">>, s1, <<1, 1>>, 1) EXCEPT
              !.lock_room_id = lr, !.room_id = rm]>>) :
     dr \in {None, "r9"}, cap2 \in {20, 30}, pr \in {None, "r2"},
     req \in {{}, {"lab"}}, fx \in {None, "r1", "r9"},
     s1 \in {None, "s1"}, lr \in {None, "r2"}, rm \in {None, "r1"}}

\* When the groups of a single assignment can be taught: g1 is listed by the
\* assignment, g2 comes with the stream only; a blocked day, a later shift
\* start and a blocked cell narrow the three cells the teacher offers.
AvailabilityWorlds ==
    {AppState(
        BaseTeachers, BaseRooms,
        ("g1" :> [BaseGroup(20) EXCEPT !.blocked_days = bd])
          @@ ("g2" :> [BaseGroup(10) EXCEPT !.shift_start_slot = sh,
                                            !.blocked_slots = bs]),
        BaseStreams, BaseDisciplines,
        <<Assignment("a1", "t1", <<"g1">>, s1, <<1, 1>>, n1)>>) :
     bd \in {{}, {0}}, sh \in {1, 2}, bs \in {{}, {"0:2"}},
     s1 \in {None, "s1"}, n1 \in 1..MaxSessions}

\* A single assignment locked to a cell that the teacher's work days, the
\* teacher's blocked cell, the groups' shift, a blocked day of g1 or a blocked
\* cell of g2 (a group of the stream) may exclude.
LockedAvailabilityWorlds ==
    {AppState(
        BaseTeachers, BaseRooms,
        ("g1" :> [BaseGroup(20) EXCEPT !.blocked_days = bd])
          @@ ("g2" :> [BaseGroup(10) EXCEPT !.blocked_slots = bs]),
        BaseStreams, BaseDisciplines,
        <<[Assignment("a1", "t1", <<"g1">>, s1, <<1, 1>>, 1) EXCEPT
              !.lock_day = ld, !.lock_slot = ls]>>) :
     bd \in {{}, {0}}, bs \in {{}, {"0:2"}}, s1 \in {None, "s1"},
     ld \in {0, 1, 2}, ls \in {1, 2, 3}}

\* Two single-session assignments of teacher t1 and group g1 in the only room
\* with a lab, the first in week 1 and locked to the cell (0, 1), the second in
\* week 1 or in week 2 and locked to one of the three cells, under daily and
\* weekly caps of one or caps that do not bind.
DisjointWeeksWorlds ==
    {AppState(
        ("t1" :> [BaseTeacher EXCEPT !.max_classes_per_day = cap[1],
                                     !.max_classes_per_week = cap[2]]) @@ BaseTeachers,
        BaseRooms, BaseGroups, BaseStreams,
        ("d1" :> Discipline({"lab"}, None)),
        <<[Assignment("a1", "t1", <<"g1">>, None, <<1, 1>>, 1) EXCEPT
              !.lock_day = 0, !.lock_slot = 1],
          [Assignment("a2", "t1", <<"g1">>, None, <<w2, w2>>, 1) EXCEPT
              !.lock_day = lock[1], !.lock_slot = lock[2]]>>) :
     cap \in {<<1, 1>>, <<1, 20>>, <<4, 1>>, <<4, 20>>}, w2 \in {1, 2},
     lock \in {<<0, 1>>, <<0, 2>>, <<1, 1>>}}

\* One reference or one number of the base world made wrong, in the stream or
\* in the first or the second assignment; and the world without assignments.
BaseAssignments ==
    <<Assignment("a1", "t1", <<"g1">>, "s1", <<1, 1>>, 1),
      Assignment("a2", "t2", <<"g2">>, None, <<1, MaxWeek>>, 1)>>

Faults(a) ==
    {[a EXCEPT !.teacher_id = "t9"], [a EXCEPT !.discipline_id = "d9"],
     [a EXCEPT !.stream_id = "s9"], [a EXCEPT !.group_ids = <<"g1", "g9">>],
     [a EXCEPT !.room_id = "r9"], [a EXCEPT !.lock_room_id = "r9"],
     [a EXCEPT !.sessions_per_week = 0],
     [a EXCEPT !.start_week = MaxWeek, !.end_week = 1],
     [a EXCEPT !.group_ids = <<>>, !.stream_id = None]}

FaultWorlds ==
    {AppState(BaseTeachers, BaseRooms, BaseGroups, streams, BaseDisciplines, assignments) :
        streams \in {BaseStreams},
        assignments \in {<<>>}
            \cup {<<a, BaseAssignments[2]>> : a \in Faults(BaseAssignments[1])}
            \cup {<<BaseAssignments[1], a>> : a \in Faults(BaseAssignments[2])}}
    \cup
    {AppState(BaseTeachers, BaseRooms, BaseGroups, streams, BaseDisciplines,
              BaseAssignments) :
        streams \in {("s1" :> Stream(<<"g1", "g9">>, None)),
                     ("s1" :> Stream(<<"g1">>, "r9"))}}

\* The faults of the second assignment again, behind a first assignment whose
\* discipline names a fixed room that does not exist.
PreemptedFaultWorlds ==
    {AppState(BaseTeachers, BaseRooms, BaseGroups, BaseStreams,
              ("d1" :> Discipline({}, "r9")),
              <<BaseAssignments[1], a>>) :
        a \in Faults(BaseAssignments[2])}

\* The contract window of teacher t2 and the program window of group g1 against
\* the weeks of a2, which is taught by t2 and gets g1 from its stream only; a1
\* stands before a2, and its discipline may name a fixed room that does not
\* exist.
WindowWorlds ==
    {AppState(
        ("t2" :> [BaseTeacher EXCEPT !.contract_start_week = c2[1],
                                     !.contract_end_week = c2[2]]) @@ BaseTeachers,
        BaseRooms,
        ("g1" :> [BaseGroup(20) EXCEPT !.program_end_week = p1]) @@ BaseGroups,
        BaseStreams,
        ("d1" :> Discipline({}, fx)),
        <<Assignment("a1", "t1", <<"g1">>, None, <<1, 1>>, 1),
          Assignment("a2", "t2", <<"g2">>, s2, w2, 1)>>) :
     c2 \in {<<1, MaxWeek>>, <<2, MaxWeek>>, <<1, 1>>}, p1 \in {1, MaxWeek},
     fx \in {None, "r9"}, s2 \in {None, "s1"}, w2 \in WeekRanges}

\* A world that still holds the schedule of an earlier run in state.schedule.
StoredEntry ==
    [assignment_id |-> "a1", discipline_id |-> "d1", teacher_id |-> "t1",
     group_ids |-> <<"g1", "g2">>, day |-> 1, slot |-> 1, room_id |-> "r2",
     start_week |-> 1, end_week |-> 1]

StoredScheduleWorlds ==
    {[AppState(BaseTeachers, BaseRooms, BaseGroups, BaseStreams, BaseDisciplines,
               <<Assignment("a1", "t1", <<"g1">>, "s1", <<1, 1>>, n1)>>)
         EXCEPT !.schedule = <<StoredEntry>>] : n1 \in 1..MaxSessions}

\* A single assignment of teacher t1 with a teacher lock, a day lock alone or
\* a slot lock alone, as a workbook or a JSON snapshot can carry them.
PartialLockWorlds ==
    {AppState(
        BaseTeachers, BaseRooms, BaseGroups, BaseStreams, BaseDisciplines,
        <<[Assignment("a1", "t1", <<"g1">>, None, <<1, 1>>, 1) EXCEPT
              !.lock_teacher_id = lt, !.lock_day = lock[1], !.lock_slot = lock[2]]>>) :
     lt \in {None, "t1", "t2"},
     lock \in {<<NoneInt, NoneInt>>, <<1, NoneInt>>, <<NoneInt, 2>>}}

Worlds ==
    BookingWorlds \cup LockWorlds \cup RoomWorlds \cup FaultWorlds
    \cup AvailabilityWorlds \cup PreemptedFaultWorlds
    \cup WindowWorlds \cup StoredScheduleWorlds
    \cup PartialLockWorlds \cup LockedAvailabilityWorlds
    \cup DisjointWeeksWorlds

----------------------------------------------------------------------------
(* generate(): the state machine *)

\* The application before any handler has run: no edit, no generation, the
\* stored schedule not (yet) the result of generate on the present world.
NoCall ==
    [op |-> "none", assignment_id |-> None, teacher_id |-> None,
     room_id |-> None, lock_slot_switch |-> 0, fresh |-> FALSE]

NoCalls == [edits |-> 0, runs |-> 0, fresh |-> FALSE, last |-> NoCall]

Init ==
    /\ world \in Worlds
    /\ ui = NoCalls
    /\ pc = "validate"
    /\ sessions = <<>>
    /\ idx = 0
    /\ candidate_timeslots = <<>>
    /\ candidate_rooms = <<>>
    /\ assignment_group_ids = <<>>
    /\ y_vars = {}
    /\ x_vars = {}
    /\ constraints = NoConstraints
    /\ penalties = <<>>
    /\ status = "NONE"
    /\ solution = NoSolution
    /\ result = <<>>
    /\ raised = NoError

\* validate_state(self.state) raises.
ValidateFails ==
    /\ pc = "validate"
    /\ validate_state(world) # NoError
    /\ raised' = validate_state(world)
    /\ pc' = "raised"
    /\ UNCHANGED <<world, sessions, idx, candidate_timeslots, candidate_rooms,
                   assignment_group_ids, y_vars, x_vars, constraints, penalties,
                   status, solution, result>>
    /\ UNCHANGED ui

\* validate_state passes and the sessions are listed; "if not sessions: return []".
Expand ==
    /\ pc = "validate"
    /\ validate_state(world) = NoError
    /\ sessions' = ExpandSessions(world.assignments)
    /\ idx' = 1
    /\ pc' = IF sessions' = <<>> THEN "returned" ELSE "candidates"
    /\ UNCHANGED <<world, candidate_timeslots, candidate_rooms,
                   assignment_group_ids, y_vars, x_vars, constraints, penalties,
                   status, solution, result, raised>>
    /\ UNCHANGED ui

\* One pass of the candidate loop that ends in a raise.
CandidatesFail ==
    /\ pc = "candidates"
    /\ idx <= Len(sessions)
    /\ LET a == SessionAssignment(sessions[idx])
       IN  /\ CandidateError(world, a) # NoError
           /\ raised' = CandidateError(world, a)
           /\ assignment_group_ids' =
                  IF GroupIdsMissing(world, a) THEN assignment_group_ids
                  ELSE AssignmentGroupIds(world, a)
    /\ pc' = "raised"
    /\ world' = [world EXCEPT !.streams =
                     StreamsAfterResolve(world, SessionAssignment(sessions[idx]))]
    /\ UNCHANGED <<sessions, idx, candidate_timeslots, candidate_rooms,
                   y_vars, x_vars, constraints, penalties, status, solution, result>>
    /\ UNCHANGED ui

\* One pass of the candidate loop that stores the session's candidates.
BuildCandidates ==
    /\ pc = "candidates"
    /\ idx <= Len(sessions)
    /\ LET skey == sessions[idx]
           a == SessionAssignment(skey)
       IN  /\ CandidateError(world, a) = NoError
           /\ assignment_group_ids' = AssignmentGroupIds(world, a)
           /\ candidate_timeslots' =
                  (skey :> BuildTimeslotCandidates(world, a, world.teachers[a.teacher_id]))
                  @@ candidate_timeslots
           /\ candidate_rooms' =
                  (skey :> BuildRoomCandidates(world, a, world.disciplines[a.discipline_id]))
                  @@ candidate_rooms
    /\ idx' = idx + 1
    /\ pc' = IF idx = Len(sessions) THEN "model" ELSE "candidates"
    /\ world' = [world EXCEPT !.streams =
                     StreamsAfterResolve(world, SessionAssignment(sessions[idx]))]
    /\ UNCHANGED <<sessions, y_vars, x_vars, constraints, penalties,
                   status, solution, result, raised>>
    /\ UNCHANGED ui

\* The variables, the constraints and the objective are posted. The constraint
\* loop and the penalty loop each leave assignment_group_ids at the groups of
\* the last session's assignment.
BuildModel ==
    /\ pc = "model"
    /\ y_vars' = BuildYVars
    /\ x_vars' = BuildXVars
    /\ constraints' = BuildConstraints
    /\ penalties' = BuildPenalties
    /\ assignment_group_ids' =
           AssignmentGroupIds(world, SessionAssignment(sessions[Len(sessions)]))
    /\ pc' = "solve"
    /\ world' = [world EXCEPT !.streams = StreamsAfterResolveAll(world, sessions)]
    /\ UNCHANGED <<sessions, idx, candidate_timeslots, candidate_rooms,
                   status, solution, result, raised>>
    /\ UNCHANGED ui

\* AfterSolve with the status tested against cp_model.OPTIMAL alone.
AfterSolveOptimalOnly(st) ==
    IF st \in {"OPTIMAL"}
    THEN pc' = "decode" /\ raised' = raised
    ELSE pc' = "raised" /\ raised' = PlanningError("infeasible", "")

\* The status check behind solver.Solve(model).
AfterSolve(st) ==
    IF st \in {"OPTIMAL", "FEASIBLE"}
    THEN pc' = "decode" /\ raised' = raised
    ELSE pc' = "raised" /\ raised' = PlanningError("infeasible", "")

\* The least objective among the solutions (0 when there is none).
BestObjective(sols) ==
    LET values == {Objective(ones) : ones \in sols}
    IN  IF sols = {} THEN 0 ELSE CHOOSE v \in values : \A u \in values : v <= u

\* The engine returns a solution: any that satisfies the constraints, reported
\* OPTIMAL only if none has a smaller objective.
SolveFound ==
    /\ pc = "solve"
    /\ \E sols \in {FeasibleSolutions} :
         \E best \in {BestObjective(sols)} :
           \E ones \in sols :
               /\ solution' = ones
               /\ \/ status' = "FEASIBLE"
                  \/ Objective(ones) = best /\ status' = "OPTIMAL"
    /\ AfterSolve(status')
    /\ UNCHANGED <<world, sessions, idx, candidate_timeslots, candidate_rooms,
                   assignment_group_ids, y_vars, x_vars, constraints, penalties,
                   result>>
    /\ UNCHANGED ui

\* The engine proves that no assignment satisfies the constraints.
SolveInfeasible ==
    /\ pc = "solve"
    /\ Infeasible
    /\ status' = "INFEASIBLE"
    /\ AfterSolve(status')
    /\ UNCHANGED <<world, sessions, idx, candidate_timeslots, candidate_rooms,
                   assignment_group_ids, y_vars, x_vars, constraints, penalties,
                   solution, result>>
    /\ UNCHANGED ui

\* max_time_in_seconds runs out before the engine has a solution or a proof.
SolveTimeout ==
    /\ pc = "solve"
    /\ status' = "UNKNOWN"
    /\ AfterSolve(status')
    /\ UNCHANGED <<world, sessions, idx, candidate_timeslots, candidate_rooms,
                   assignment_group_ids, y_vars, x_vars, constraints, penalties,
                   solution, result>>
    /\ UNCHANGED ui

\* The decoding loop over all sessions and the final sort, or the internal
\* error at the first session with nothing chosen.
Decode ==
    /\ pc = "decode"
    /\ IF \E i \in DOMAIN sessions : NothingChosen(sessions[i], solution)
       THEN /\ raised' = PlanningError("internal",
                            sessions[FirstIndex([k \in DOMAIN sessions |->
                                NothingChosen(sessions[k], solution)])][1])
            /\ pc' = "raised"
            /\ result' = result
       ELSE /\ result' = SortEntries([i \in DOMAIN sessions |->
                            ScheduleEntry(sessions[i], solution, assignment_group_ids)])
            /\ pc' = "returned"
            /\ raised' = raised
    /\ world' = [world EXCEPT !.schedule = StoredSchedule(world, result')]
    /\ UNCHANGED <<sessions, idx, candidate_timeslots, candidate_rooms,
                   assignment_group_ids, y_vars, x_vars, constraints, penalties,
                   status, solution>>
    /\ UNCHANGED ui

Next ==
    \/ ValidateFails
    \/ Expand
    \/ CandidatesFail
    \/ BuildCandidates
    \/ BuildModel
    \/ SolveFound
    \/ SolveInfeasible
    \/ SolveTimeout
    \/ Decode

Spec == Init /\ [][Next]_vars

----------------------------------------------------------------------------
(* ui.py: the handlers of SchedulerDesktopApp that change the AppState *)

MaxEdits == 1
MaxRuns == 2

\* The worlds the application starts from: a1 of teacher t1 and a2 of teacher
\* t2 teach the same group, a2 in room r1 and in week 1 only, where the
\* contract of t2 ends; and a snapshot whose assignment names no teacher of
\* the world.
UIWorlds ==
    {AppState(
        ("t1" :> BaseTeacher) @@ ("t2" :> [BaseTeacher EXCEPT !.contract_end_week = 1]),
        BaseRooms, BaseGroups, BaseStreams, BaseDisciplines,
        <<Assignment("a1", "t1", <<"g1">>, None, <<1, MaxWeek>>, n1),
          [Assignment("a2", "t2", <<"g1">>, None, <<1, 1>>, 1) EXCEPT
              !.room_id = "r1"]>>) : n1 \in {1, 2}}
    \cup
    {AppState(
        BaseTeachers, BaseRooms, BaseGroups, BaseStreams, BaseDisciplines,
        <<Assignment("a1", "t9", <<"g1">>, None, <<1, 1>>, 1)>>)}

\* _find_assignment: the position of the first assignment with that id, 0 for None.
FindAssignment(w, assignment_id) ==
    FirstIndex([k \in DOMAIN w.assignments |-> w.assignments[k].id = assignment_id])

NoEntry == [assignment_id |-> None]

\* _first_schedule_entry: the first entry of state.schedule with that assignment_id.
FirstScheduleEntry(w, assignment_id) ==
    LET i == FirstIndex([k \in DOMAIN w.schedule |->
                            w.schedule[k].assignment_id = assignment_id])
    IN  IF i = 0 THEN NoEntry ELSE w.schedule[i]

\* "if teacher_id: assignment.teacher_id = teacher_id" and the same for room_id;
\* None stands for the empty string an unset combo box gives.
Replaced(assignment, teacher_id, room_id) ==
    [assignment EXCEPT
        !.teacher_id = IF teacher_id # None THEN teacher_id ELSE @,
        !.room_id = IF room_id # None THEN room_id ELSE @]

\* Pinned with the room of the entry not taken over.
PinnedCellOnly(assignment, entry) ==
    [assignment EXCEPT !.lock_day = entry.day, !.lock_slot = entry.slot]

\* The three lock fields set from the entry.
Pinned(assignment, entry) ==
    [assignment EXCEPT !.lock_day = entry.day, !.lock_slot = entry.slot,
                       !.lock_room_id = entry.room_id]

\* apply_replacement with the values of its four widgets.
AfterReplacement(w, assignment_id, teacher_id, room_id, lock_slot_switch) ==
    LET k == FindAssignment(w, assignment_id)
        entry == FirstScheduleEntry(w, assignment_id)
    IN  IF assignment_id = None \/ k = 0 THEN w
        ELSE [w EXCEPT !.assignments[k] =
                 IF lock_slot_switch = 1 /\ entry # NoEntry
                 THEN Pinned(Replaced(w.assignments[k], teacher_id, room_id), entry)
                 ELSE Replaced(w.assignments[k], teacher_id, room_id)]

\* clear_slot_lock.
AfterClearSlotLock(w, assignment_id) ==
    LET k == FindAssignment(w, assignment_id)
    IN  IF k = 0 THEN w
        ELSE [w EXCEPT !.assignments[k].lock_day = NoneInt,
                       !.assignments[k].lock_slot = NoneInt,
                       !.assignments[k].lock_room_id = None]

Idle == pc = "idle"

InitUI ==
    /\ world \in UIWorlds
    /\ ui = NoCalls
    /\ pc = "idle"
    /\ sessions = <<>>
    /\ idx = 0
    /\ candidate_timeslots = <<>>
    /\ candidate_rooms = <<>>
    /\ assignment_group_ids = <<>>
    /\ y_vars = {}
    /\ x_vars = {}
    /\ constraints = NoConstraints
    /\ penalties = <<>>
    /\ status = "NONE"
    /\ solution = NoSolution
    /\ result = <<>>
    /\ raised = NoError

\* The handler of the replacement form.
ApplyReplacement(assignment_id, teacher_id, room_id, lock_slot_switch) ==
    /\ Idle
    /\ ui.edits < MaxEdits
    /\ world' = AfterReplacement(world, assignment_id, teacher_id, room_id,
                                 lock_slot_switch)
    /\ ui' = [edits |-> ui.edits + 1, runs |-> ui.runs,
              fresh |-> ui.fresh /\ world' = world,
              last |-> [op |-> "apply_replacement", assignment_id |-> assignment_id,
                        teacher_id |-> teacher_id, room_id |-> room_id,
                        lock_slot_switch |-> lock_slot_switch, fresh |-> ui.fresh]]
    /\ UNCHANGED <<pc, sessions, idx, candidate_timeslots, candidate_rooms,
                   assignment_group_ids, y_vars, x_vars, constraints, penalties,
                   status, solution, result, raised>>

\* The handler of the "clear lock" button.
ClearSlotLock(assignment_id) ==
    /\ Idle
    /\ ui.edits < MaxEdits
    /\ world' = AfterClearSlotLock(world, assignment_id)
    /\ ui' = [edits |-> ui.edits + 1, runs |-> ui.runs,
              fresh |-> ui.fresh /\ world' = world,
              last |-> [NoCall EXCEPT !.op = "clear_slot_lock",
                                      !.assignment_id = assignment_id,
                                      !.fresh = ui.fresh]]
    /\ UNCHANGED <<pc, sessions, idx, candidate_timeslots, candidate_rooms,
                   assignment_group_ids, y_vars, x_vars, constraints, penalties,
                   status, solution, result, raised>>

\* generate_schedule: a new ScheduleGenerator on the present AppState.
GenerateSchedule ==
    /\ Idle
    /\ ui.runs < MaxRuns
    /\ pc' = "validate"
    /\ sessions' = <<>>
    /\ idx' = 0
    /\ candidate_timeslots' = <<>>
    /\ candidate_rooms' = <<>>
    /\ assignment_group_ids' = <<>>
    /\ y_vars' = {}
    /\ x_vars' = {}
    /\ constraints' = NoConstraints
    /\ penalties' = <<>>
    /\ status' = "NONE"
    /\ solution' = NoSolution
    /\ result' = <<>>
    /\ raised' = NoError
    /\ ui' = [ui EXCEPT !.runs = @ + 1]
    /\ UNCHANGED world

\* generate_schedule, generate() has returned: self.app_state.schedule = schedule.
StoreSchedule ==
    /\ pc = "returned"
    /\ world' = [world EXCEPT !.schedule = result]
    /\ pc' = "idle"
    /\ ui' = [ui EXCEPT !.fresh = TRUE, !.last = [NoCall EXCEPT !.op = "generate_schedule"]]
    /\ UNCHANGED <<sessions, idx, candidate_timeslots, candidate_rooms,
                   assignment_group_ids, y_vars, x_vars, constraints, penalties,
                   status, solution, result, raised>>

\* generate_schedule, generate() has raised: the error is shown (a KeyError is
\* reported by the event loop) and the stored schedule stays.
GenerationFailed ==
    /\ pc = "raised"
    /\ pc' = "idle"
    /\ ui' = [ui EXCEPT !.last = [NoCall EXCEPT !.op = "generate_schedule"]]
    /\ UNCHANGED <<world, sessions, idx, candidate_timeslots, candidate_rooms,
                   assignment_group_ids, y_vars, x_vars, constraints, penalties,
                   status, solution, result, raised>>

NextUI ==
    \/ GenerateSchedule
    \/ ValidateFails
    \/ Expand
    \/ CandidatesFail
    \/ BuildCandidates
    \/ BuildModel
    \/ SolveFound
    \/ SolveInfeasible
    \/ SolveTimeout
    \/ Decode
    \/ StoreSchedule
    \/ GenerationFailed
    \/ \E assignment_id \in {"a1", "a2", "a9"}, teacher_id \in {None, "t2"},
          room_id \in {None, "r2"}, lock_slot_switch \in {0, 1} :
           ApplyReplacement(assignment_id, teacher_id, room_id, lock_slot_switch)
    \/ \E assignment_id \in {"a1", "a9"} : ClearSlotLock(assignment_id)

SpecUI == InitUI /\ [][NextUI]_vars

----------------------------------------------------------------------------
(* Properties of the schedule generate() returns *)

Returned == pc = "returned"
Finished == pc \in {"returned", "raised"}

Entries == DOMAIN result

\* The assignment an entry names, and groups(A) of it.
EntryAssignment(e) == AssignmentById(world, e.assignment_id)
EffectiveGroups(e) == Range(AssignmentGroupIds(world, EntryAssignment(e)))

SameCell(e1, e2) == e1.day = e2.day /\ e1.slot = e2.slot

\* C1: in a returned schedule, two distinct entries with the same teacher_id,
\* the same day and the same slot have week ranges that do not overlap.
C1_TeacherNonOverlap ==
    Returned =>
        \A i, j \in Entries :
            (i # j /\ result[i].teacher_id = result[j].teacher_id
                   /\ SameCell(result[i], result[j]))
              => ~weeks_overlap(result[i], result[j])

\* C1 witness: a returned schedule holds two entries of one teacher on one
\* cell, in disjoint week ranges.
C1_Witness ==
    /\ Returned
    /\ \E i, j \in Entries :
           /\ i # j
           /\ result[i].teacher_id = result[j].teacher_id
           /\ SameCell(result[i], result[j])

\* C2: every entry of a returned schedule carries groups(A) of its own
\* assignment A: the sorted duplicate-free union of A.group_ids and the
\* group_ids of A's stream.
C2_EntryGroupsAreEffective ==
    Returned =>
        \A i \in Entries :
            result[i].group_ids = AssignmentGroupIds(world, EntryAssignment(result[i]))

\* C3: in a returned schedule, two distinct entries whose group_ids lists share
\* a group id and whose week ranges overlap differ in day or in slot.
C3_GroupNonOverlapOutput ==
    Returned =>
        \A i, j \in Entries :
            (i # j /\ Range(result[i].group_ids) \cap Range(result[j].group_ids) # {}
                   /\ weeks_overlap(result[i], result[j]))
              => ~SameCell(result[i], result[j])

\* C4: in a returned schedule, two sessions whose assignments' effective group
\* sets share a group and whose week ranges have a common week are never on
\* the same (day, slot).
C4_GroupSingleBooking ==
    Returned =>
        \A i, j \in Entries :
            (i # j /\ EffectiveGroups(result[i]) \cap EffectiveGroups(result[j]) # {}
                   /\ weeks_overlap(result[i], result[j]))
              => ~SameCell(result[i], result[j])

\* C4 witness: a returned schedule holds entries of two assignments with a
\* common week that share a group only through the stream of one of them.
C4_Witness ==
    /\ Returned
    /\ \E i, j \in Entries :
           /\ result[i].assignment_id # result[j].assignment_id
           /\ weeks_overlap(result[i], result[j])
           /\ EffectiveGroups(result[i]) \cap EffectiveGroups(result[j]) # {}
           /\ Range(EntryAssignment(result[i]).group_ids)
                \cap Range(EntryAssignment(result[j]).group_ids) = {}

\* C5: in a returned schedule, two distinct entries with the same room_id, the
\* same day and the same slot have week ranges that do not overlap.
C5_RoomNonOverlap ==
    Returned =>
        \A i, j \in Entries :
            (i # j /\ result[i].room_id = result[j].room_id
                   /\ SameCell(result[i], result[j]))
              => ~weeks_overlap(result[i], result[j])

\* C5 witness: a returned schedule holds two entries in one room on one cell.
C5_Witness ==
    /\ Returned
    /\ \E i, j \in Entries :
           /\ i # j
           /\ result[i].room_id = result[j].room_id
           /\ SameCell(result[i], result[j])

\* The entries of teacher t whose week range contains week w.
TeacherEntries(t, w) ==
    {i \in Entries : result[i].teacher_id = t
                     /\ result[i].start_week <= w /\ w <= result[i].end_week}

\* C6: in a returned schedule, for every teacher t, week w and day d, at most
\* t.max_classes_per_day entries of t lie on day d in week w and at most
\* t.max_classes_per_week entries of t lie in week w; and under
\* max_classes_per_day = 1 the entries of one assignment lie on distinct days.
C6_TeacherLoad ==
    Returned =>
        /\ \A t \in DOMAIN world.teachers, w \in Weeks :
              /\ \A d \in DayIndexes :
                     Cardinality({i \in TeacherEntries(t, w) : result[i].day = d})
                       <= world.teachers[t].max_classes_per_day
              /\ Cardinality(TeacherEntries(t, w))
                   <= world.teachers[t].max_classes_per_week
        /\ \A i, j \in Entries :
              (i # j /\ result[i].assignment_id = result[j].assignment_id
                     /\ world.teachers[result[i].teacher_id].max_classes_per_day = 1)
                => result[i].day # result[j].day

\* C6 witness: a returned schedule in which a teacher with a daily cap of one
\* has the two sessions of one assignment, or a teacher with a weekly cap of
\* two has two entries in one week.
C6_Witness ==
    /\ Returned
    /\ \E i, j \in Entries :
           /\ i # j
           /\ result[i].assignment_id = result[j].assignment_id
           /\ world.teachers[result[i].teacher_id].max_classes_per_day = 1

\* C6 second witness: the weekly cap is reached.
C6_WitnessWeekly ==
    /\ Returned
    /\ \E t \in DOMAIN world.teachers, w \in Weeks :
           Cardinality(TeacherEntries(t, w)) = world.teachers[t].max_classes_per_week

\* C7: a returned schedule holds exactly A.sessions_per_week entries for every
\* assignment A of the world, and no entry for any other id.
C7_ExactlyOnePerSession ==
    Returned =>
        /\ \A k \in DOMAIN world.assignments :
               Cardinality({i \in Entries :
                               result[i].assignment_id = world.assignments[k].id})
                 = world.assignments[k].sessions_per_week
        /\ \A i \in Entries :
               \E k \in DOMAIN world.assignments :
                   world.assignments[k].id = result[i].assignment_id

\* C7 witness: a returned schedule for a world with an assignment of two
\* sessions a week beside another assignment.
C7_Witness ==
    /\ Returned
    /\ Len(world.assignments) = 2
    /\ \E k \in DOMAIN world.assignments : world.assignments[k].sessions_per_week = 2

\* C8: in a returned schedule, every entry of an assignment with lock_day and
\* lock_slot both set lies on that day and slot, and every entry of an
\* assignment with lock_room_id set is in that room.
C8_LockHonored ==
    Returned =>
        \A i \in Entries :
            LET a == EntryAssignment(result[i])
            IN  /\ Locked(a) =>
                       result[i].day = a.lock_day /\ result[i].slot = a.lock_slot
                /\ a.lock_room_id # None => result[i].room_id = a.lock_room_id

\* C8 witness: a returned schedule with an entry of an assignment that is
\* locked to a day, a slot and a room, all different from the first candidates.
C8_Witness ==
    /\ Returned
    /\ \E i \in Entries :
           LET a == EntryAssignment(result[i])
           IN  /\ a.lock_day = 0 /\ a.lock_slot = 2 /\ a.lock_room_id = "r2"
               /\ result[i].day = 0 /\ result[i].slot = 2
               /\ result[i].room_id = "r2"

\* The scenario of C9: a1 asks for room r1 by room_id and can only take the
\* cell (0, 1); a2 is locked to that cell and to r1; room r2 fits a1.
C9_Scenario ==
    /\ Len(world.assignments) = 2
    /\ LET a1 == world.assignments[1]
           a2 == world.assignments[2]
       IN  /\ a1.room_id = "r1" /\ a1.lock_room_id = None
           /\ a1.sessions_per_week = 1
           /\ a1.lock_day = 0 /\ a1.lock_slot = 1
           /\ a2.lock_day = 0 /\ a2.lock_slot = 1 /\ a2.lock_room_id = "r1"
           /\ weeks_overlap(a1, a2)
           /\ world.disciplines[a1.discipline_id].fixed_room_id = None
           /\ RoomFitsAssignment(world, world.rooms["r2"], a1,
                                 world.disciplines[a1.discipline_id])

\* C9: room_id is a preference: in the scenario the candidates of a1 hold the
\* other feasible room, and unless the time limit ends the search, generate
\* returns a schedule with a1 in that room.
C9_RoomPreference ==
    C9_Scenario =>
        /\ pc = "solve" => "r2" \in Range(candidate_rooms[<<"a1", 0>>])
        /\ (Finished /\ status # "UNKNOWN") =>
               /\ Returned
               /\ \E i \in Entries :
                      result[i].assignment_id = "a1" /\ result[i].room_id = "r2"

\* C10: whatever the world, generate returns or raises PlanningError: no other
\* kind of error leaves it.
C10_OnlyPlanningError ==
    raised.kind \in {"none", "PlanningError"}

\* The teacher of an entry, and the groups of groups(A) of its assignment.
EntryTeacher(e) == world.teachers[EntryAssignment(e).teacher_id]
EntryGroups(e) == {world.groups[g] : g \in EffectiveGroups(e)}

\* C11: every entry of a returned schedule has its day in 0..5 and its slot in
\* 1..8, lies on a work day of its teacher and outside the teacher's
\* blocked_slots, and for every group of groups(A), the stream's included, lies
\* outside the group's blocked_days, inside its shift and outside its
\* blocked_slots.
C11_CellAvailable ==
    Returned =>
        \A i \in Entries :
            LET e == result[i]
            IN  /\ e.day \in 0..5 /\ e.slot \in 1..8
                /\ e.day \in EntryTeacher(e).work_days
                /\ slot_key(e.day, e.slot) \notin EntryTeacher(e).blocked_slots
                /\ \A g \in EntryGroups(e) :
                       /\ e.day \notin g.blocked_days
                       /\ g.shift_start_slot <= e.slot /\ e.slot <= g.shift_end_slot
                       /\ slot_key(e.day, e.slot) \notin g.blocked_slots

\* C11 witness: a returned entry of an assignment whose stream brings a group
\* that starts at slot 2, while the listed group could be taught at slot 1 on
\* both days: the entry lies on slot 2.
C11_Witness ==
    /\ Returned
    /\ \E i \in Entries :
           LET a == EntryAssignment(result[i])
           IN  /\ a.stream_id = "s1" /\ a.group_ids = <<"g1">>
               /\ world.groups["g2"].shift_start_slot = 2
               /\ world.groups["g1"].shift_start_slot = 1
               /\ world.groups["g1"].blocked_days = {}
               /\ result[i].slot = 2

RECURSIVE HeadCount(_)
\* The sum of the sizes of a set of group ids, each group counted once.
HeadCount(gs) ==
    IF gs = {} THEN 0
    ELSE LET g == CHOOSE g \in gs : TRUE
         IN  world.groups[g].size + HeadCount(gs \ {g})

\* C12: for every entry of a returned schedule, the capacity of its room is at
\* least the sum of the sizes of the groups of groups(A), each counted once,
\* and every tag of the discipline's required_room_features is a feature of
\* the room.
C12_RoomFeasible ==
    Returned =>
        \A i \in Entries :
            LET e == result[i]
                room == world.rooms[e.room_id]
                discipline == world.disciplines[EntryAssignment(e).discipline_id]
            IN  /\ e.room_id \in DOMAIN world.rooms
                /\ room.capacity >= HeadCount(EffectiveGroups(e))
                /\ discipline.required_room_features \subseteq room.features

\* C12 witness: a returned entry of an assignment that lists g1 and whose
\* stream lists g1 and g2, for a discipline that requires a feature, in a room
\* whose capacity equals the head count with each group counted once.
C12_Witness ==
    /\ Returned
    /\ \E i \in Entries :
           LET e == result[i]
               a == EntryAssignment(e)
           IN  /\ a.stream_id = "s1" /\ a.group_ids = <<"g1">>
               /\ world.disciplines[a.discipline_id].required_room_features = {"lab"}
               /\ world.rooms[e.room_id].capacity = HeadCount({"g1", "g2"})

\* C13: the list generate returns is sorted in non-decreasing lexicographic
\* order of (day, slot, assignment_id).
C13_OutputSorted ==
    Returned =>
        \A i, j \in Entries :
            i < j =>
                \/ result[i].day < result[j].day
                \/ /\ result[i].day = result[j].day
                   /\ result[i].slot < result[j].slot
                \/ /\ result[i].day = result[j].day
                   /\ result[i].slot = result[j].slot
                   /\ Rank(result[i].assignment_id) <= Rank(result[j].assignment_id)

\* C13 witness: a returned schedule of three entries in which an entry of the
\* second assignment of the world stands before an entry of the first.
C13_Witness ==
    /\ Returned
    /\ Len(result) = 3
    /\ \E i, j \in Entries :
           /\ i < j
           /\ result[i].assignment_id = world.assignments[2].id
           /\ result[j].assignment_id = world.assignments[1].id

\* Every id a stream or an assignment refers to resolves, the numbers of every
\* assignment are sane and every assignment resolves to at least one group.
StreamResolves(w, sid) ==
    /\ \A g \in Range(w.streams[sid].group_ids) : g \in DOMAIN w.groups
    /\ w.streams[sid].preferred_room_id # None
           => w.streams[sid].preferred_room_id \in DOMAIN w.rooms

AssignmentResolves(w, a) ==
    /\ a.teacher_id \in DOMAIN w.teachers
    /\ a.discipline_id \in DOMAIN w.disciplines
    /\ a.stream_id # None => a.stream_id \in DOMAIN w.streams
    /\ \A g \in Range(a.group_ids) : g \in DOMAIN w.groups
    /\ a.room_id # None => a.room_id \in DOMAIN w.rooms
    /\ a.lock_room_id # None => a.lock_room_id \in DOMAIN w.rooms
    /\ a.sessions_per_week > 0
    /\ a.start_week <= a.end_week

HasGroups(w, a) ==
    \/ a.group_ids # <<>>
    \/ /\ a.stream_id # None /\ a.stream_id \in DOMAIN w.streams
       /\ w.streams[a.stream_id].group_ids # <<>>

WorldValid(w) ==
    /\ \A sid \in DOMAIN w.streams : StreamResolves(w, sid)
    /\ \A k \in DOMAIN w.assignments :
           AssignmentResolves(w, w.assignments[k]) /\ HasGroups(w, w.assignments[k])

\* C14: generate returns a schedule only if every stream's group ids and
\* preferred room resolve and every assignment's teacher, discipline, stream,
\* groups, room_id and lock_room_id resolve, sessions_per_week > 0,
\* start_week <= end_week and groups(A) is not empty; otherwise it raises
\* PlanningError and returns nothing.
C14_Validation ==
    /\ Returned => WorldValid(world)
    /\ (Finished /\ ~WorldValid(world)) =>
           raised.kind = "PlanningError" /\ result = <<>>

\* The week range of x lies outside the contract window of teacher t, or
\* outside the program window of group g.
OutsideContract(x, t) ==
    x.start_week < t.contract_start_week \/ x.end_week > t.contract_end_week

OutsideProgram(x, g) ==
    x.start_week < g.program_start_week \/ x.end_week > g.program_end_week

\* Some assignment of the world lies outside its teacher's contract window or
\* outside the program window of a group of groups(A).
WindowFault(w) ==
    \E k \in DOMAIN w.assignments :
        LET a == w.assignments[k]
        IN  \/ /\ a.teacher_id \in DOMAIN w.teachers
               /\ OutsideContract(a, w.teachers[a.teacher_id])
            \/ \E g \in Range(ResolvedGroupIds(w, a)) \cap DOMAIN w.groups :
                   OutsideProgram(a, w.groups[g])

\* C15: generate raises PlanningError whenever some assignment starts before
\* or ends after its teacher's contract window, or the program window of a
\* group of groups(A), the stream's included; so every entry of a returned
\* schedule has its week range inside the contract window of its teacher and
\* inside the program window of each of its effective groups.
C15_WindowChecks ==
    /\ (Finished /\ WindowFault(world)) => raised.kind = "PlanningError"
    /\ Returned =>
           \A i \in Entries :
               /\ ~OutsideContract(result[i], EntryTeacher(result[i]))
               /\ \A g \in EntryGroups(result[i]) : ~OutsideProgram(result[i], g)

\* groups(A) as records, for an assignment of a valid world.
GroupsOf(a) == {world.groups[g] : g \in Range(ResolvedGroupIds(world, a))}

\* T(s): the cells left for a session of assignment a by the lock on day and
\* slot, the teacher's work days and blocked cells, and every group's blocked
\* days, shift and blocked cells.
FeasibleTimeslots(a) ==
    {c \in DayIndexes \X SLOTS :
        /\ (a.lock_day # NoneInt /\ a.lock_slot # NoneInt)
              => c = <<a.lock_day, a.lock_slot>>
        /\ c[1] \in world.teachers[a.teacher_id].work_days
        /\ slot_key(c[1], c[2]) \notin world.teachers[a.teacher_id].blocked_slots
        /\ \A g \in GroupsOf(a) :
               /\ c[1] \notin g.blocked_days
               /\ g.shift_start_slot <= c[2] /\ c[2] <= g.shift_end_slot
               /\ slot_key(c[1], c[2]) \notin g.blocked_slots}

\* The rooms of the world that are feasible for assignment a.
FeasibleRoomsOf(a) ==
    {r \in DOMAIN world.rooms :
        /\ world.rooms[r].capacity
              >= HeadCount(Range(ResolvedGroupIds(world, a)))
        /\ world.disciplines[a.discipline_id].required_room_features
              \subseteq world.rooms[r].features}

\* R(s): the requested room if there is one and it is a feasible room, every
\* feasible room if none is requested.
FeasibleRooms(a) ==
    LET wishes == <<a.lock_room_id, a.room_id,
                    world.disciplines[a.discipline_id].fixed_room_id,
                    IF a.stream_id # None
                       THEN world.streams[a.stream_id].preferred_room_id
                       ELSE None>>
        first == FirstIndex([k \in DOMAIN wishes |-> wishes[k] # None])
    IN  IF first = 0 THEN FeasibleRoomsOf(a)
        ELSE {wishes[first]} \cap FeasibleRoomsOf(a)

\* Assignment a cannot pass the candidate stage: a window is violated or one
\* of its two candidate sets is empty.
NoCandidatesFor(a) == FeasibleTimeslots(a) = {} \/ FeasibleRooms(a) = {}

StoppedAtCandidates(a) ==
    \/ NoCandidatesFor(a)
    \/ OutsideContract(a, world.teachers[a.teacher_id])
    \/ \E g \in GroupsOf(a) : OutsideProgram(a, g)

\* C16: if for some assignment of a valid world T(s) is empty or R(s) is empty
\* (the first assignment of the list that cannot pass the candidate stage),
\* generate raises PlanningError naming that assignment, and no solver
\* variable has been created and the solver has not been invoked.
C16_NoCandidates ==
    (Finished /\ WorldValid(world)) =>
        \A k \in DOMAIN world.assignments :
            (/\ NoCandidatesFor(world.assignments[k])
             /\ \A j \in 1..(k - 1) : ~StoppedAtCandidates(world.assignments[j]))
              => /\ raised.kind = "PlanningError"
                 /\ raised.who = world.assignments[k].id
                 /\ y_vars = {} /\ x_vars = {}
                 /\ status = "NONE"

\* The solver has been invoked and has reported a status.
SolverReported == status # "NONE"

\* The result holds one entry for every session of every assignment.
CompleteSchedule ==
    /\ Len(result) = Len(sessions)
    /\ \A k \in DOMAIN world.assignments :
           Cardinality({i \in Entries :
                           result[i].assignment_id = world.assignments[k].id})
             = world.assignments[k].sessions_per_week

\* C17: once the solver has reported, generate returns a complete schedule
\* exactly when the status is optimal or feasible; for every other status it
\* raises one and the same PlanningError and returns no entry; a partial
\* schedule is never returned.
C17_SolverOutcome ==
    /\ (Finished /\ SolverReported) =>
           IF status \in {"OPTIMAL", "FEASIBLE"}
           THEN Returned /\ CompleteSchedule
           ELSE /\ pc = "raised"
                /\ raised = PlanningError("infeasible", "")
                /\ result = <<>>
    /\ (Returned /\ sessions # <<>>) => status \in {"OPTIMAL", "FEASIBLE"}
    /\ result # <<>> => Returned /\ CompleteSchedule

\* C17 witness: generate has raised for a model of more than one session that
\* the solver proved infeasible.
C17_Witness ==
    /\ pc = "raised"
    /\ status = "INFEASIBLE"
    /\ Len(sessions) > 1

\* C17 second and third witness: the time limit ended the search of a model
\* that has a solution; a schedule of three entries is returned for a
\* solution reported feasible.
C17_WitnessTimeout ==
    /\ pc = "raised"
    /\ status = "UNKNOWN"
    /\ ~Infeasible

C17_WitnessFeasible ==
    /\ Returned
    /\ status = "FEASIBLE"
    /\ Len(result) = 3

\* C18: generate never mutates its input: no step of it changes the world's
\* teachers, rooms, groups, streams, disciplines, assignments or its stored
\* schedule list, so after generate has returned or raised they are what they
\* were before the call.
C18_InputUnchanged == [][world' = world]_vars

\* C18 witness: generate has returned a schedule for a world that holds a
\* stored schedule and an assignment that lists a group and has a stream.
C18_Witness ==
    /\ Returned
    /\ result # <<>>
    /\ world.schedule # <<>>
    /\ world.schedule # result
    /\ \E k \in DOMAIN world.assignments :
           /\ world.assignments[k].stream_id # None
           /\ world.assignments[k].group_ids # <<>>

\* C19: if an assignment has lock_teacher_id set, every entry for it in a
\* returned schedule has teacher_id = lock_teacher_id.
C19_TeacherLockHonored ==
    Returned =>
        \A i \in Entries :
            EntryAssignment(result[i]).lock_teacher_id # None
              => result[i].teacher_id = EntryAssignment(result[i]).lock_teacher_id

\* C20: in a returned schedule, every entry of an assignment with lock_day set
\* and lock_slot unset lies on day lock_day, and every entry of an assignment
\* with lock_slot set and lock_day unset lies on slot lock_slot.
C20_LoneLockHonored ==
    Returned =>
        \A i \in Entries :
            LET a == EntryAssignment(result[i])
            IN  /\ (a.lock_day # NoneInt /\ a.lock_slot = NoneInt)
                      => result[i].day = a.lock_day
                /\ (a.lock_slot # NoneInt /\ a.lock_day = NoneInt)
                      => result[i].slot = a.lock_slot

\* C21: in every returned schedule, no two entries with the same assignment_id
\* have the same (day, slot).
C21_DistinctCells ==
    Returned =>
        \A i, j \in Entries :
            (i # j /\ result[i].assignment_id = result[j].assignment_id)
              => ~(result[i].day = result[j].day /\ result[i].slot = result[j].slot)

\* C21 witness: a returned schedule with two entries of one assignment, for
\* which two rooms were candidates.
C21_Witness ==
    /\ Returned
    /\ \E i, j \in Entries :
           /\ i # j
           /\ result[i].assignment_id = result[j].assignment_id
           /\ Len(candidate_rooms[<<result[i].assignment_id, 0>>]) = 2

\* The requested room of assignment a: the first value that is set among
\* lock_room_id, room_id, the discipline's fixed_room_id and the stream's
\* preferred_room_id; None when none is set.
RequestedRoomOf(a) ==
    IF a.lock_room_id # None THEN a.lock_room_id
    ELSE IF a.room_id # None THEN a.room_id
    ELSE IF world.disciplines[a.discipline_id].fixed_room_id # None
         THEN world.disciplines[a.discipline_id].fixed_room_id
    ELSE IF a.stream_id # None THEN world.streams[a.stream_id].preferred_room_id
    ELSE None

\* R(s) as C22 states it.
RequestedOrFeasible(a) ==
    IF RequestedRoomOf(a) # None
    THEN {RequestedRoomOf(a)} \cap FeasibleRoomsOf(a)
    ELSE FeasibleRoomsOf(a)

\* C22: the room candidates stored for a session are exactly the requested
\* room (first set of lock_room_id, room_id, fixed_room_id, preferred_room_id)
\* when it is feasible, and every feasible room when no room is requested; a
\* requested room that is not feasible leaves R(s) empty and generate raises
\* the PlanningError for it; every entry of an assignment with a requested
\* room is in that room.
C22_RequestedRoom ==
    /\ \A skey \in DOMAIN candidate_rooms :
           Range(candidate_rooms[skey]) = RequestedOrFeasible(SessionAssignment(skey))
    /\ Returned =>
           \A i \in Entries :
               RequestedRoomOf(EntryAssignment(result[i])) # None
                 => result[i].room_id = RequestedRoomOf(EntryAssignment(result[i]))
    /\ (Finished /\ WorldValid(world)) =>
           \A k \in DOMAIN world.assignments :
               LET a == world.assignments[k]
               IN  (/\ RequestedRoomOf(a) # None
                    /\ RequestedOrFeasible(a) = {}
                    /\ FeasibleTimeslots(a) # {}
                    /\ ~OutsideContract(a, world.teachers[a.teacher_id])
                    /\ \A g \in GroupsOf(a) : ~OutsideProgram(a, g)
                    /\ \A j \in 1..(k - 1) : ~StoppedAtCandidates(world.assignments[j]))
                     => raised = PlanningError("no_rooms", a.id)

\* C23: when the model is built, the group-shift part of the penalty is zero
\* for every x variable it holds: the slot of a materialized variable lies
\* inside the shift of every effective group of its assignment.
C23_ShiftPenaltyZero ==
    pc = "solve" => \A xk \in x_vars : group_shift_penalty(xk) = 0

\* C23 witness: the model holds variables of an assignment one of whose
\* effective groups starts its shift after the first slot, and the solver
\* is about to run.
C23_Witness ==
    /\ pc = "solve"
    /\ \E xk \in x_vars :
           \E g \in GroupsOf(SessionAssignment(xk[1])) :
               g.shift_start_slot > 1

\* C24 as stated: whenever generate has built its objective, the weights it
\* used are ordered fixed room > explicit room_id > teacher default room >
\* late slot > one group's shift mismatch.
C24_StatedOrdering ==
    pc = "solve" =>
        /\ PenaltyFixedRoom > PenaltyAssignmentRoom
        /\ PenaltyAssignmentRoom > PenaltyDefaultRoom
        /\ PenaltyDefaultRoom > PenaltyLateSlot
        /\ PenaltyLateSlot > PenaltyShift

\* C24: whenever generate has built its objective, the weights it used are
\* ordered fixed room > explicit room_id > one group's shift mismatch >
\* teacher default room > late slot.
C24_WeightOrdering ==
    pc = "solve" =>
        /\ PenaltyFixedRoom > PenaltyAssignmentRoom
        /\ PenaltyAssignmentRoom > PenaltyShift
        /\ PenaltyShift > PenaltyDefaultRoom
        /\ PenaltyDefaultRoom > PenaltyLateSlot

\* C24 witness: the objective holds a term that adds two of the weights, the
\* explicit-room and the fixed-room mismatch of one variable.
C24_Witness ==
    /\ pc = "solve"
    /\ \E xk \in DOMAIN penalties :
           penalties[xk] = PenaltyAssignmentRoom + PenaltyFixedRoom

\* The Booleans of one session: its y and its x variables.
SessionVars(skey) == {v \in y_vars \cup x_vars : v[1] = skey}

\* The constraints of one session that mention y variables only: the values
\* of the session's y decide them.
YConstraints(skey) ==
    {c \in LocalConstraints(skey) : c.vars \cup RhsVars(c) \subseteq y_vars}

\* In the values ones, the session has exactly one y at 1 and exactly one x
\* at 1, and that x is at the cell of that y.
OnePlacement(skey, ones) ==
    /\ Cardinality(ones \cap y_vars) = 1
    /\ Cardinality(ones \cap x_vars) = 1
    /\ \A yk \in ones \cap y_vars : \A xk \in ones \cap x_vars :
           xk[2] = yk[2] /\ xk[3] = yk[3]

\* C25: every value of a session's Booleans that satisfies the session's
\* exactly-one constraint and its channeling constraints has exactly one y at 1
\* and exactly one x at 1, at that cell; the decoder finds a cell and a room
\* for every session of a solution, and generate never raises the internal
\* "no slot chosen" error.
C25_DecoderTotal ==
    /\ pc = "solve" =>
           \A skey \in SessionKeys :
               \A ys \in SUBSET (SessionVars(skey) \cap y_vars) :
                   (\A c \in YConstraints(skey) : Satisfied(c, ys)) =>
                       \A xs \in SUBSET (SessionVars(skey) \cap x_vars) :
                           (\A c \in LocalConstraints(skey) : Satisfied(c, ys \cup xs))
                             => OnePlacement(skey, ys \cup xs)
    /\ pc = "decode" =>
           \A i \in DOMAIN sessions : ~NothingChosen(sessions[i], solution)
    /\ ~(raised.kind = "PlanningError" /\ raised.tag = "internal")

\* C25 witness: the decoder is about to run on a solution of a model in which
\* a session had more than one cell and more than one room to choose from.
C25_Witness ==
    /\ pc = "decode"
    /\ status \in {"OPTIMAL", "FEASIBLE"}
    /\ \E skey \in SessionKeys :
           /\ Len(candidate_timeslots[skey]) > 1
           /\ Len(candidate_rooms[skey]) > 1

\* The entries the decoding loop builds, one for each session.
Decoded ==
    [i \in DOMAIN sessions |->
        ScheduleEntry(sessions[i], solution, assignment_group_ids)]

\* The list the loop builds when it visits the sessions in the order p, a
\* permutation of their positions.
InOrder(decoded, p) == [i \in DOMAIN decoded |-> decoded[p[i]]]

\* C26: no two entries of a returned schedule have the same sort key
\* (day, slot, assignment_id), and the returned list is the same in whatever
\* order the sessions of the solution are decoded.
C26_OrderDeterminism ==
    Returned =>
        /\ \A i, j \in Entries :
               (/\ result[i].day = result[j].day
                /\ result[i].slot = result[j].slot
                /\ result[i].assignment_id = result[j].assignment_id) => i = j
        /\ \A decoded \in {Decoded} :
               \A p \in Permutations(DOMAIN sessions) :
                   SortEntries(InOrder(decoded, p)) = result

\* C26 witness: a returned schedule with two entries of different assignments
\* in the same cell, which only the assignment_id of the key tells apart.
C26_Witness ==
    /\ Returned
    /\ \E i, j \in Entries :
           /\ SameCell(result[i], result[j])
           /\ result[i].assignment_id # result[j].assignment_id

\* Assignment a has both lock_day and lock_slot set, and the locked cell is
\* outside the teacher's work days, or a blocked cell of the teacher, or
\* excluded by a blocked day, the shift or a blocked cell of a group of
\* groups(A).
LockedCellUnavailable(a) ==
    /\ a.lock_day # NoneInt /\ a.lock_slot # NoneInt
    /\ \/ a.lock_day \notin world.teachers[a.teacher_id].work_days
       \/ slot_key(a.lock_day, a.lock_slot)
              \in world.teachers[a.teacher_id].blocked_slots
       \/ \E g \in GroupsOf(a) :
              \/ a.lock_day \in g.blocked_days
              \/ a.lock_slot < g.shift_start_slot
              \/ a.lock_slot > g.shift_end_slot
              \/ slot_key(a.lock_day, a.lock_slot) \in g.blocked_slots

\* C27: a valid world with an assignment locked to a cell that the teacher or
\* one of its groups excludes is never given a schedule; generate raises the
\* "no available slots" PlanningError naming that assignment (the first
\* assignment of the list that cannot pass the candidate stage, its weeks
\* inside the contract and program windows).
C27_LockKeepsAvailability ==
    WorldValid(world) =>
        \A k \in DOMAIN world.assignments :
            LET a == world.assignments[k]
            IN  LockedCellUnavailable(a) =>
                    /\ ~Returned
                    /\ (/\ Finished
                        /\ ~OutsideContract(a, world.teachers[a.teacher_id])
                        /\ \A g \in GroupsOf(a) : ~OutsideProgram(a, g)
                        /\ \A j \in 1..(k - 1) :
                               ~StoppedAtCandidates(world.assignments[j]))
                         => raised = PlanningError("no_slots", a.id)

\* C27 witness: generate has raised the "no available slots" error for an
\* assignment whose locked cell only a group that comes with its stream
\* excludes.
C27_Witness ==
    /\ pc = "raised"
    /\ raised.kind = "PlanningError" /\ raised.tag = "no_slots"
    /\ \E k \in DOMAIN world.assignments :
           LET a == world.assignments[k]
           IN  /\ raised.who = a.id
               /\ LockedCellUnavailable(a)
               /\ a.lock_day \in world.teachers[a.teacher_id].work_days
               /\ slot_key(a.lock_day, a.lock_slot)
                      \notin world.teachers[a.teacher_id].blocked_slots
               /\ \A i \in DOMAIN a.group_ids :
                      slot_key(a.lock_day, a.lock_slot)
                         \notin world.groups[a.group_ids[i]].blocked_slots
               /\ a.lock_slot <= 2
               /\ \A g \in GroupsOf(a) : a.lock_day \notin g.blocked_days

\* The two assignments have no week in common.
NoCommonWeek(a, b) == a.end_week < b.start_week \/ b.end_week < a.start_week

\* The world holds exactly two single-session assignments of one teacher that
\* have no week in common, and each passes the candidate stage.
TwoInDisjointWeeks ==
    /\ WorldValid(world)
    /\ Len(world.assignments) = 2
    /\ LET a == world.assignments[1]
           b == world.assignments[2]
       IN  /\ a.teacher_id = b.teacher_id
           /\ a.sessions_per_week = 1 /\ b.sessions_per_week = 1
           /\ NoCommonWeek(a, b)
           /\ ~StoppedAtCandidates(a) /\ ~StoppedAtCandidates(b)

\* Moreover the two share a group and the only feasible room and are locked
\* to the same cell.
SameLockedCellAndRoom ==
    LET a == world.assignments[1]
        b == world.assignments[2]
    IN  /\ GroupsOf(a) \cap GroupsOf(b) # {}
        /\ Cardinality(FeasibleRooms(a)) = 1 /\ FeasibleRooms(a) = FeasibleRooms(b)
        /\ a.lock_day # NoneInt /\ a.lock_slot # NoneInt
        /\ a.lock_day = b.lock_day /\ a.lock_slot = b.lock_slot

\* C28: two assignments without a common week do not constrain each other:
\* with the same teacher, whatever the teacher's daily and weekly caps (at
\* least one), the constraints are satisfiable and the solver never reports
\* infeasibility; if they also share a group and the only feasible room and
\* are locked to the same cell, every schedule generate returns has both
\* entries on that cell and in that room.
C28_DisjointWeeksIndependent ==
    TwoInDisjointWeeks =>
        /\ pc = "solve" => ~Infeasible
        /\ status # "INFEASIBLE"
        /\ (Finished /\ status \in {"OPTIMAL", "FEASIBLE"}) => Returned
        /\ (Returned /\ SameLockedCellAndRoom) =>
               /\ Len(result) = 2
               /\ result[1].assignment_id # result[2].assignment_id
               /\ \A i \in Entries :
                      /\ result[i].day = world.assignments[1].lock_day
                      /\ result[i].slot = world.assignments[1].lock_slot
                      /\ {result[i].room_id} = FeasibleRooms(world.assignments[1])

\* C28 witness: a returned schedule with both entries on the shared locked
\* cell and room, for a teacher whose daily and weekly caps are one.
C28_Witness ==
    /\ Returned
    /\ TwoInDisjointWeeks
    /\ SameLockedCellAndRoom
    /\ world.teachers[world.assignments[1].teacher_id].max_classes_per_day = 1
    /\ world.teachers[world.assignments[1].teacher_id].max_classes_per_week = 1
    /\ Len(result) = 2
    /\ SameCell(result[1], result[2])
    /\ result[1].room_id = result[2].room_id

\* C28 witness of the caps: a returned schedule with the two assignments on
\* different cells of one day, for a teacher whose daily cap is one.
C28_WitnessCaps ==
    /\ Returned
    /\ TwoInDisjointWeeks
    /\ world.teachers[world.assignments[1].teacher_id].max_classes_per_day = 1
    /\ Len(result) = 2
    /\ result[1].day = result[2].day
    /\ result[1].slot # result[2].slot

\* Assignment a has both lock_day and lock_slot set and two or more sessions
\* a week.
LockedMultiSession(a) ==
    a.lock_day # NoneInt /\ a.lock_slot # NoneInt /\ a.sessions_per_week >= 2

\* The last handler called was apply_replacement with the lock switch on, for
\* an assignment of the world.
LastCallPinned ==
    /\ ui.last.op = "apply_replacement"
    /\ ui.last.lock_slot_switch = 1
    /\ FindAssignment(world, ui.last.assignment_id) # 0

PinnedAssignment == world.assignments[FindAssignment(world, ui.last.assignment_id)]

\* C29: while an assignment of the world has both lock_day and lock_slot set
\* and sessions_per_week >= 2, the model generate builds has no solution, no
\* schedule is decoded or returned, and a call of generate in which the solver
\* was invoked ends with the infeasibility PlanningError; and apply_replacement
\* with the lock switch on, for a multi-session assignment that has an entry
\* in the stored schedule, leaves that assignment locked to the cell and the
\* room of its first entry.
C29_MultiSessionLock ==
    /\ (\E k \in DOMAIN world.assignments : LockedMultiSession(world.assignments[k]))
          => /\ pc = "solve" => Infeasible
             /\ pc \notin {"decode", "returned"}
             /\ (pc = "raised" /\ SolverReported)
                   => raised = PlanningError("infeasible", "")
    /\ (/\ LastCallPinned
        /\ PinnedAssignment.sessions_per_week >= 2
        /\ FirstScheduleEntry(world, PinnedAssignment.id) # NoEntry)
          => /\ LockedMultiSession(PinnedAssignment)
             /\ PinnedAssignment.lock_day
                   = FirstScheduleEntry(world, PinnedAssignment.id).day
             /\ PinnedAssignment.lock_slot
                   = FirstScheduleEntry(world, PinnedAssignment.id).slot
             /\ PinnedAssignment.lock_room_id
                   = FirstScheduleEntry(world, PinnedAssignment.id).room_id

\* C29 witness: a multi-session assignment was pinned to its first entry and
\* the next generate has raised the infeasibility error, the solver having
\* reported INFEASIBLE.
C29_Witness ==
    /\ pc = "raised"
    /\ status = "INFEASIBLE"
    /\ raised = PlanningError("infeasible", "")
    /\ LastCallPinned
    /\ LockedMultiSession(PinnedAssignment)
    /\ FirstScheduleEntry(world, PinnedAssignment.id) # NoEntry

\* The entries of assignment aid in the stored schedule, in the schedule's order.
StoredEntriesOf(aid) == SelectSeq(world.schedule, LAMBDA e : e.assignment_id = aid)

\* The values of the Booleans that repeat the stored schedule: the k-th
\* session of an assignment at the cell and room of its k-th stored entry.
StoredPlacement ==
    UNION {LET e == StoredEntriesOf(skey[1])[skey[2] + 1]
           IN  {<<skey, e.day, e.slot>>, <<skey, e.day, e.slot, e.room_id>>} :
           skey \in SessionKeys}

\* The last handler called pinned a single-session assignment to its own
\* entry of a schedule that generate had returned for the world as it was,
\* with the teacher and the room combo left empty or at the entry's values.
PinnedOwnEntry ==
    /\ LastCallPinned
    /\ ui.last.fresh
    /\ PinnedAssignment.sessions_per_week = 1
    /\ FirstScheduleEntry(world, PinnedAssignment.id) # NoEntry
    /\ ui.last.teacher_id
          \in {None, FirstScheduleEntry(world, PinnedAssignment.id).teacher_id}
    /\ ui.last.room_id
          \in {None, FirstScheduleEntry(world, PinnedAssignment.id).room_id}

\* C30: in the call of generate that follows such a pin, validation and the
\* candidate stage pass, the stored schedule satisfies every constraint of
\* the model (so the solver never reports INFEASIBLE), and every schedule
\* returned has the pinned assignment at the day, slot and room of its stored
\* entry.
C30_PinStable ==
    PinnedOwnEntry =>
        /\ pc = "raised" => status = "UNKNOWN"
        /\ pc = "solve" =>
               /\ StoredPlacement \subseteq (y_vars \cup x_vars)
               /\ HardConstraints(StoredPlacement)
        /\ status # "INFEASIBLE" \/ pc = "idle"
        /\ pc = "returned" =>
               \A i \in Entries :
                   result[i].assignment_id = PinnedAssignment.id
                     => LET e == FirstScheduleEntry(world, PinnedAssignment.id)
                        IN  /\ result[i].day = e.day
                            /\ result[i].slot = e.slot
                            /\ result[i].room_id = e.room_id

\* C30 witness: the generate that follows the pin has returned a schedule in
\* which another assignment has moved, while the pinned one had two rooms and
\* three cells to choose from before the pin.
C30_Witness ==
    /\ PinnedOwnEntry
    /\ pc = "returned"
    /\ Len(result) = Len(world.schedule)
    /\ result # world.schedule
    /\ PinnedAssignment.room_id = None

====
